---------------------------- MODULE Spec2Model ----------------------------
(***************************************************************************)
(* Selector healing service (curertestai): intent policies, the validation *)
(* and arbitration engine, the fast-path cache and the heal endpoints.     *)
(*                                                                         *)
(* Conventions                                                             *)
(*   - Python str is a TLA+ string; Python None is None (the empty tuple)  *)
(*     and an optional string is None or Some(s).                          *)
(*   - Floats are exact fixed-point integers.  A rank score is counted in  *)
(*     1e-4 (views.py rounds it to 4 places), a history / retrieval boost  *)
(*     and an advisory score in 1e-2, a blended score in 1e-6.             *)
(*   - Time is counted in days.                                            *)
(***************************************************************************)
EXTENDS Integers, Sequences, FiniteSets, TLC

VARIABLES
    config_file,    \* what CONFIG_PATH holds on disk
    policy_cache,   \* lru_cache of _load_intent_policies: None until the first call
    rule,           \* last _resolve_intent + _rule_validate_candidate call and its result
    db,             \* HealerRequest table, in creation order (id = index)
    snaps,          \* DomSnapshot table, in creation order
    call,           \* arguments of the select_validated_candidate call being prepared
    decision,       \* what that call returned (None before the call)
    now,            \* current day
    resp,           \* last HTTP response of the heal endpoints (None before the first)
    request,        \* the request that response answers
    batches,        \* HealerRequestBatch table, in creation order (id = index)
    suggested,      \* SuggestedSelector table, in creation order
    env,            \* environment of the process: USE_HEALING_CACHE, USE_LLM_VALIDATION
    elements,       \* the element records at hand (dom_data["elements"])
    backend,        \* the ranking backend of the build and what its embedding gives
    ui_knowledge,   \* what the ui_knowledge service holds for the page
    ret,            \* the last call of a component on its own: arguments and result
    job,            \* the GenerationJob row with its GeneratedArtifact rows (None before one is drafted)
    tree            \* the working tree under the repository root: symlinked directories and files

vars == <<config_file, policy_cache, rule, db, snaps, call, decision, now, resp, request, batches, suggested, env, elements, backend, ui_knowledge, ret, job, tree>>

\* The variables of the heal endpoints and of the validation engine.
service == <<config_file, policy_cache, rule, db, snaps, call, decision, now, resp, request, batches, suggested, env>>

\* The variables of the components that are studied on their own.
pipeline == <<elements, backend, ui_knowledge, ret>>

\* The variables of test generation.
generation == <<job, tree>>

-----------------------------------------------------------------------------
(* Python values *)

None == <<>>
Some(s) == <<s>>
OrEmpty(o) == IF o = None THEN "" ELSE o[1]        \* (o or "")

\* dict.get(key, default)
Get(dict, key, default) == IF key \in DOMAIN dict THEN dict[key] ELSE default

\* No component has been called on its own.
Idle == elements = <<>> /\ backend = None /\ ui_knowledge = None /\ ret = None

\* No generation job has been created.
NoGeneration == job = None /\ tree = None

Max(a, b) == IF a >= b THEN a ELSE b
Min(a, b) == IF a <= b THEN a ELSE b

Contains(s, p) == \E i \in 1..(Len(s) - Len(p) + 1) : SubSeq(s, i, i + Len(p) - 1) = p
StartsWith(s, p) == Len(s) >= Len(p) /\ SubSeq(s, 1, Len(p)) = p

IsSpace(c) == c \in {" ", "\t", "\n", "\r", "\f"}

LowerChar(c) ==
    CASE c = "A" -> "a" [] c = "B" -> "b" [] c = "C" -> "c" [] c = "D" -> "d"
      [] c = "E" -> "e" [] c = "F" -> "f" [] c = "G" -> "g" [] c = "H" -> "h"
      [] c = "I" -> "i" [] c = "J" -> "j" [] c = "K" -> "k" [] c = "L" -> "l"
      [] c = "M" -> "m" [] c = "N" -> "n" [] c = "O" -> "o" [] c = "P" -> "p"
      [] c = "Q" -> "q" [] c = "R" -> "r" [] c = "S" -> "s" [] c = "T" -> "t"
      [] c = "U" -> "u" [] c = "V" -> "v" [] c = "W" -> "w" [] c = "X" -> "x"
      [] c = "Y" -> "y" [] c = "Z" -> "z" [] OTHER -> c

RECURSIVE Lower(_)
Lower(s) == IF s = "" THEN "" ELSE LowerChar(SubSeq(s, 1, 1)) \o Lower(SubSeq(s, 2, Len(s)))

RECURSIVE LStrip(_)
LStrip(s) == IF s # "" /\ IsSpace(SubSeq(s, 1, 1)) THEN LStrip(SubSeq(s, 2, Len(s))) ELSE s

RECURSIVE RStrip(_)
RStrip(s) ==
    IF s # "" /\ IsSpace(SubSeq(s, Len(s), Len(s))) THEN RStrip(SubSeq(s, 1, Len(s) - 1)) ELSE s

Strip(s) == RStrip(LStrip(s))

\* validation_engine._normalize: (s or "").strip().lower()
_normalize(o) == Lower(Strip(OrEmpty(o)))

-----------------------------------------------------------------------------
(* Intent policies *)

\* A policy pattern is its regular expression text (src) and what re.search does
\* with it: the pattern is an alternation of literals (alts), anchored at the
\* start of the string or not.
Pat(src, anchored, alts) == [src |-> src, anchored |-> anchored, alts |-> alts]
Lit(s) == Pat(s, FALSE, {s})

\* re.search(pattern, sel)
ReSearch(p, sel) ==
    \E a \in p.alts : IF p.anchored THEN StartsWith(sel, a) ELSE Contains(sel, a)

P_CART_ICON ==
    Pat("(/cart|cart-icon|data-testid=[\"\\']cart-icon|bi-bag)", FALSE,
        {"/cart", "cart-icon", "data-testid=\"cart-icon", "data-testid='cart-icon", "bi-bag"})
P_ANCHOR == Pat("^a\\[", TRUE, {"a["})
P_A_BRACKET == Pat("a\\[", FALSE, {"a["})

DEFAULT_INTENT_POLICIES ==
    [add_to_cart |->
        [blocked_selector_patterns |-> <<P_CART_ICON, P_ANCHOR>>,
         allowed_hint_patterns |-> <<Lit("button"), Lit("add"), Lit("cart-plus")>>],
     checkout |->
        [blocked_selector_patterns |-> <<>>,
         allowed_hint_patterns |->
            <<Lit("checkout"), Lit("proceed"), Lit("pay"), Lit("button"), P_A_BRACKET>>],
     payment |->
        [blocked_selector_patterns |-> <<Lit("cart-icon")>>,
         allowed_hint_patterns |-> <<Lit("pay"), Lit("payment"), Lit("button")>>],
     view_details |->
        [blocked_selector_patterns |-> <<>>,
         allowed_hint_patterns |-> <<Lit("view"), Lit("details"), P_A_BRACKET>>],
     generic |->
        [blocked_selector_patterns |-> <<>>,
         allowed_hint_patterns |-> <<>>]]

\* A config/intent_policies.json an operator may deploy: it blocks ^a[ outside
\* add_to_cart, adds an intent of its own and has no "generic" entry.
CUSTOM_INTENT_POLICIES ==
    [add_to_cart |->
        [blocked_selector_patterns |-> <<P_ANCHOR, Lit("bi-bag")>>,
         allowed_hint_patterns |-> <<>>],
     checkout |->
        [blocked_selector_patterns |-> <<P_ANCHOR>>,
         allowed_hint_patterns |-> <<Lit("checkout"), Lit("add"), Lit("button")>>],
     login |->
        [blocked_selector_patterns |-> <<>>,
         allowed_hint_patterns |-> <<Lit("login")>>]]

\* What CONFIG_PATH may hold: no file, the empty object {}, text that is not
\* JSON, bytes that are not UTF-8 (a file saved as UTF-16, say), or a deployed
\* policy set.
ConfigFiles == {"missing", "empty", "corrupt", "not_utf8", "custom"}

\* json.load(f) raises UnicodeDecodeError, which the except clause of line 73
\* (FileNotFoundError, json.JSONDecodeError, OSError) does not name: the
\* exception leaves _load_intent_policies, and lru_cache stores nothing.
LoadRaises(file) == file = "not_utf8"

\* The body of _load_intent_policies (what a cache miss computes) when it
\* returns.
ReadIntentPolicies(file) ==
    IF file = "custom" THEN CUSTOM_INTENT_POLICIES   \* a non-empty dict
    ELSE DEFAULT_INTENT_POLICIES                     \* missing, {} or not JSON

\* @lru_cache(maxsize=1) _load_intent_policies()
_load_intent_policies(cache, file) == IF cache = None THEN ReadIntentPolicies(file) ELSE cache[1]

\* The classification without its rule for "cart".
IntentWithoutCartRule(use_of_selector) ==
    LET text == _normalize(Some(use_of_selector)) IN
    IF Contains(text, "add to cart") \/ (Contains(text, "add") /\ Contains(text, "cart"))
        THEN "add_to_cart"
    ELSE IF Contains(text, "checkout") THEN "checkout"
    ELSE IF Contains(text, "pay now") \/ Contains(text, "payment") THEN "payment"
    ELSE IF Contains(text, "view details") THEN "view_details"
    ELSE "generic"

\* validation_engine._intent
_intent(use_of_selector) ==
    LET text == _normalize(Some(use_of_selector)) IN
    IF Contains(text, "add to cart") \/ (Contains(text, "add") /\ Contains(text, "cart"))
        THEN "add_to_cart"
    ELSE IF Contains(text, "checkout") THEN "checkout"
    ELSE IF Contains(text, "cart") THEN "cart"
    ELSE IF Contains(text, "pay now") \/ Contains(text, "payment") THEN "payment"
    ELSE IF Contains(text, "view details") THEN "view_details"
    ELSE "generic"

\* validation_engine._resolve_intent
_resolve_intent(policies, intent_key, use_of_selector) ==
    LET explicit == _normalize(Some(intent_key)) IN
    IF explicit # "" /\ explicit \in DOMAIN policies THEN explicit
    ELSE _intent(use_of_selector)

EmptyPolicy == [blocked_selector_patterns |-> <<>>, allowed_hint_patterns |-> <<>>]

\* policies.get(intent, policies.get("generic", {}))
PolicyFor(policies, intent) ==
    IF intent \in DOMAIN policies THEN policies[intent]
    ELSE IF "generic" \in DOMAIN policies THEN policies["generic"]
    ELSE EmptyPolicy

\* The waiver without its test of the pattern and of the intent.
WaivedWheneverAdd(intent, pattern, sel) == Contains(sel, "add")

\* The waiver of the blocked-pattern loop: `continue` instead of `return False`.
Waived(intent, pattern, sel) ==
    intent = "add_to_cart" /\ pattern.src = "^a\\[" /\ Contains(sel, "add")

\* The blocked-pattern loop: the first pattern that rejects sel, or None.
RECURSIVE FirstBlocking(_, _, _, _)
FirstBlocking(intent, sel, pats, i) ==
    IF i > Len(pats) THEN None
    ELSE IF ReSearch(pats[i], sel) /\ ~Waived(intent, pats[i], sel) THEN Some(pats[i].src)
    ELSE FirstBlocking(intent, sel, pats, i + 1)

\* validation_engine._rule_validate_candidate: (is_valid, reason)
_rule_validate_candidate(policies, intent, candidate_selector) ==
    LET sel == _normalize(candidate_selector)
        policy == PolicyFor(policies, intent)
        blocking == FirstBlocking(intent, sel, policy.blocked_selector_patterns, 1)
        hints == policy.allowed_hint_patterns
    IN  IF blocking # None
            THEN [ok |-> FALSE, reason |-> "INTENT_POLICY_BLOCKED:" \o blocking[1]]
        ELSE IF hints # <<>> /\ ~(\E i \in 1..Len(hints) : ReSearch(hints[i], sel))
            THEN [ok |-> FALSE, reason |-> "INTENT_POLICY_NO_ALLOWED_HINT_MATCH"]
        ELSE [ok |-> TRUE, reason |-> "VALID"]

-----------------------------------------------------------------------------
(* Validation and arbitration engine *)

HISTORY_LIMIT == 50
RETRIEVAL_LIMIT == 40
TOP_HITS == 3

\* seq[:n]
Take(seq, n) == SubSeq(seq, 1, Min(n, Len(seq)))

\* order_by("-created_on"): newest first.  Rows are kept in creation order and
\* created_on never decreases along the table, so this is the reversed table.
NewestFirst(seq) == [i \in 1..Len(seq) |-> seq[Len(seq) + 1 - i]]

\* The history boost counted over every stored row of the page and intent, not
\* only the 50 most recent ones.
HistoryBoostOverAllRows(rows, page_url, use_of_selector, candidate_selector) ==
    LET InScope(r) == r.url = page_url /\ r.use_of_selector = use_of_selector
        recent == NewestFirst(SelectSeq(rows, InScope))
        Same(r) == _normalize(Some(r.healed_selector)) = _normalize(candidate_selector)
        Hit(r) == Same(r) /\ r.success
        Miss(r) == Same(r) /\ ~r.success
        success_hits == Cardinality({i \in 1..Len(recent) : Hit(recent[i])})
        false_hits == Cardinality({i \in 1..Len(recent) : Miss(recent[i])})
        total_hits == success_hits + false_hits
    IN  IF recent = <<>> \/ total_hits = 0 THEN [boost |-> 0, hits |-> 0]
        ELSE [boost |-> Max(-20, Min(20, (success_hits * 5) - (false_hits * 8))),
              hits |-> total_hits]

\* The history boost with every stored failure of the page counted, whatever
\* selector it was for.
HistoryBoostCountingEveryFailure(rows, page_url, use_of_selector, candidate_selector) ==
    LET InScope(r) == r.url = page_url /\ r.use_of_selector = use_of_selector
        recent == Take(NewestFirst(SelectSeq(rows, InScope)), HISTORY_LIMIT)
        Same(r) == _normalize(Some(r.healed_selector)) = _normalize(candidate_selector)
        Hit(r) == Same(r) /\ r.success
        Miss(r) == ~r.success
        success_hits == Cardinality({i \in 1..Len(recent) : Hit(recent[i])})
        false_hits == Cardinality({i \in 1..Len(recent) : Miss(recent[i])})
        total_hits == success_hits + false_hits
    IN  IF recent = <<>> \/ total_hits = 0 THEN [boost |-> 0, hits |-> 0]
        ELSE [boost |-> Max(-20, Min(20, (success_hits * 5) - (false_hits * 8))),
              hits |-> total_hits]

\* validation_engine._history_boost: (boost in 1e-2, total_hits)
_history_boost(rows, page_url, use_of_selector, candidate_selector) ==
    LET InScope(r) == r.url = page_url /\ r.use_of_selector = use_of_selector
        recent == Take(NewestFirst(SelectSeq(rows, InScope)), HISTORY_LIMIT)
        Same(r) == _normalize(Some(r.healed_selector)) = _normalize(candidate_selector)
        Hit(r) == Same(r) /\ r.success
        Miss(r) == Same(r) /\ ~r.success
        success_hits == Cardinality({i \in 1..Len(recent) : Hit(recent[i])})
        false_hits == Cardinality({i \in 1..Len(recent) : Miss(recent[i])})
        total_hits == success_hits + false_hits
    IN  IF recent = <<>> \/ total_hits = 0 THEN [boost |-> 0, hits |-> 0]
        ELSE [boost |-> Max(-20, Min(20, (success_hits * 5) - (false_hits * 8))),
              hits |-> total_hits]

\* The similarity with the first set as the denominator.
JaccardOverFirst(a, b) ==
    IF a = {} \/ b = {} THEN <<0, 1>>
    ELSE <<Cardinality(a \cap b), Cardinality(a)>>

JaccardOfNothingIsOne(a, b) ==
    IF a = {} /\ b = {} THEN <<1, 1>>
    ELSE IF a = {} \/ b = {} THEN <<0, 1>>
    ELSE <<Cardinality(a \cap b), Cardinality(a \cup b)>>

\* fingerprint.jaccard_similarity as the fraction <<numerator, denominator>>
jaccard_similarity(a, b) ==
    IF a = {} \/ b = {} THEN <<0, 1>>
    ELSE <<Cardinality(a \cap b), Cardinality(a \cup b)>>

\* similarity >= pct / 100
AtLeast(sim, pct) == sim[1] * 100 >= pct * sim[2]

\* healed_selector__iexact=candidate_selector (None matches no stored selector,
\* the null and empty ones being excluded)
IExact(stored, candidate_selector) ==
    candidate_selector # None /\ Lower(stored) = Lower(candidate_selector[1])

\* validation_engine._retrieval_boost: (boost in 1e-2, number of provenance entries)
_retrieval_boost(snapshots, page_url, use_of_selector, intent_key, candidate_selector, current_signature_tokens) ==
    LET InScope(s) ==
            /\ s.page_url = page_url
            /\ s.success
            /\ s.validation_status = "VALID"
            /\ s.healed_selector # ""
            /\ IF intent_key # "" THEN s.intent_key = intent_key
                                  ELSE s.use_of_selector = use_of_selector
            /\ IExact(s.healed_selector, candidate_selector)
        query == Take(NewestFirst(SelectSeq(snapshots, InScope)), RETRIEVAL_LIMIT)
        HasTokens(s) == s.signature_tokens # {}
        scored_hits == SelectSeq(query, HasTokens)
        Sim(s) == jaccard_similarity(current_signature_tokens, s.signature_tokens)
        Best(pct) == \E i \in 1..Len(scored_hits) : AtLeast(Sim(scored_hits[i]), pct)
    IN  IF current_signature_tokens = {} \/ query = <<>> \/ scored_hits = <<>>
            THEN [boost |-> 0, hits |-> 0]
        ELSE [boost |-> IF Best(85) THEN 20
                        ELSE IF Best(70) THEN 14
                        ELSE IF Best(55) THEN 8
                        ELSE IF Best(40) THEN 4
                        ELSE 0,
              hits |-> Min(TOP_HITS, Len(scored_hits))]

\* What the advisory scorer answers for one candidate.
\*   score      a well-formed reply carrying the score v (in 1e-2)
\*   URLError   connection refused, HTTP error status
\*   bad_json   the body, or the model output, is not JSON (ValueError)
\*   bad_shape  well-formed JSON of another shape: parsed or score_payload is
\*              not a dict (AttributeError), or score is null (TypeError)
Reply(kind, v) == [kind |-> kind, v |-> v]

\* validation_engine._llm_score: the score in 1e-2, or the exception that
\* leaves the function
_llm_score(llm_enabled, reply) ==
    IF ~llm_enabled THEN [raised |-> FALSE, score |-> 0]
    ELSE IF reply.kind = "score" THEN [raised |-> FALSE, score |-> Max(0, Min(100, reply.v))]
    ELSE IF reply.kind \in {"URLError", "bad_json"} THEN [raised |-> FALSE, score |-> 0]
    ELSE [raised |-> TRUE, score |-> 0]

W_RANK == 70
W_HISTORY == 12
W_LLM == 10
W_RETRIEVAL == 8
MIN_SCORE == 280000

\* The history term without its shift: max(0.0, history) / 0.4.
HistoryNormUnshifted(history) == Max(0, history)

\* max(0.0, history + 0.2) / 0.4, in fortieths
HistoryNorm(history) == Max(0, history + 20)
\* max(0.0, min(1.0, retrieval / 0.20)), in twentieths
RetrievalNorm(retrieval) == Max(0, Min(20, retrieval))

\* final_score in 1e-6 (line 321)
FinalScore(base, history, llm, retrieval) ==
    (W_RANK * base) + (W_HISTORY * HistoryNorm(history) * 250) + (W_LLM * llm * 100)
        + (W_RETRIEVAL * RetrievalNorm(retrieval) * 500)

\* str(selector) inside an f-string
Str(o) == IF o = None THEN "None" ELSE o[1]

\* The candidate loop (lines 298-322), from candidate i on, given what the
\* earlier candidates left in acc.  An exception of _llm_score ends the loop.
RECURSIVE CandidateLoop(_, _, _, _, _, _)
CandidateLoop(policies, rows, snapshots, c, i, acc) ==
    IF i > Len(c.candidates) \/ acc.raised THEN acc
    ELSE
        LET candidate == c.candidates[i]
            selector == candidate.selector
            intent == _resolve_intent(policies, c.intent_key, c.use_of_selector)
            verdict == _rule_validate_candidate(policies, intent, selector)
            h == _history_boost(rows, c.page_url, c.use_of_selector, selector)
            r == _retrieval_boost(snapshots, c.page_url, c.use_of_selector, c.intent_key,
                                  selector, c.current_signature_tokens)
            llm == _llm_score(c.llm_enabled, candidate.reply)
            final_score == FinalScore(candidate.score, h.boost, llm.score, r.boost)
        IN  IF ~verdict.ok
                THEN CandidateLoop(policies, rows, snapshots, c, i + 1,
                        [acc EXCEPT !.invalid_reasons =
                            Append(@, Str(selector) \o ": " \o verdict.reason)])
            ELSE IF llm.raised
                THEN [acc EXCEPT !.raised = TRUE]
            ELSE CandidateLoop(policies, rows, snapshots, c, i + 1,
                        [acc EXCEPT !.scored = Append(@, [final |-> final_score, index |-> i]),
                                    !.total_history_hits = @ + h.hits,
                                    !.total_retrieval_hits = @ + r.hits])

LoopStart ==
    [scored |-> <<>>, invalid_reasons |-> <<>>, total_history_hits |-> 0,
     total_retrieval_hits |-> 0, raised |-> FALSE]

\* scored[0] of a list that was not sorted.
FirstScored(scored) == scored[1]

\* scored.sort(key=lambda x: x[0], reverse=True); scored[0]: the sort is stable,
\* so the first of the entries with the highest score comes first.
BestScored(scored) ==
    LET top == CHOOSE i \in 1..Len(scored) :
                /\ \A j \in 1..Len(scored) : scored[j].final <= scored[i].final
                /\ \A j \in 1..(i - 1) : scored[j].final < scored[i].final
    IN  scored[top]

RECURSIVE Join(_, _)
Join(parts, sep) ==
    IF parts = <<>> THEN ""
    ELSE IF Len(parts) = 1 THEN parts[1]
    ELSE parts[1] \o sep \o Join(Tail(parts), sep)

Pad3(n) == IF n < 10 THEN "00" \o ToString(n) ELSE IF n < 100 THEN "0" \o ToString(n) ELSE ToString(n)

\* f"{best_score:.3f}" of a score of 1e-6 units, zero or more (a tie at half a
\* thousandth is rounded up)
Fmt3(micro) ==
    LET th == (micro + 500) \div 1000 IN ToString(th \div 1000) \o "." \o Pad3(th % 1000)

NO_CANDIDATES == "No candidates available"
NO_CANDIDATES_REMOVED ==
    "No candidates available. Historical comparison indicates target element was removed from UI."
NO_CANDIDATES_MAJOR ==
    "No candidates available. Historical comparison indicates major UI change."
NONE_PASSED == "No candidate passed validation rules"
NONE_PASSED_REMOVED ==
    "No safe match. Historical comparison indicates target element was removed from UI."
NONE_PASSED_MAJOR ==
    "No safe match. Historical comparison indicates major UI change; suggestions blocked for safety."
TOO_LOW == "Best candidate score too low"
PASSED == "Selector passed rule/history/LLM validation"

\* The decision with suggestions blocked on a major change of the page.
DecisionBlockedOnMajorChange(chosen, status, reason, c, acc) ==
    [raised |-> FALSE,
     chosen |-> IF c.ui_change_level = "MAJOR_CHANGE" THEN None ELSE chosen,
     validation_status |->
        IF c.ui_change_level = "MAJOR_CHANGE" THEN "NO_SAFE_MATCH" ELSE status,
     validation_reason |-> reason,
     llm_used |-> c.llm_enabled,
     history_assisted |-> acc.total_history_hits > 0,
     history_hits |-> acc.total_history_hits,
     retrieval_assisted |-> acc.total_retrieval_hits > 0,
     retrieval_hits |-> acc.total_retrieval_hits]

Decision(chosen, status, reason, c, acc) ==
    [raised |-> FALSE,
     chosen |-> chosen,
     validation_status |-> status,
     validation_reason |-> reason,
     llm_used |-> c.llm_enabled,
     history_assisted |-> acc.total_history_hits > 0,
     history_hits |-> acc.total_history_hits,
     retrieval_assisted |-> acc.total_retrieval_hits > 0,
     retrieval_hits |-> acc.total_retrieval_hits]

\* The decision record of a call that an exception left.
Raised == [raised |-> TRUE]

\* The threshold test with the boundary on the wrong side: best_score <= 0.28.
AtOrBelowThreshold(best_score) == best_score <= MIN_SCORE

\* best_score < 0.28 (line 352)
BelowThreshold(best_score) == best_score < MIN_SCORE

\* The chosen selector without the `or ""`.
RawSelector(best_candidate) == best_candidate.selector

\* best_candidate.get("selector") or "" (line 365)
ChosenSelector(best_candidate) == Some(OrEmpty(best_candidate.selector))

\* validation_engine.select_validated_candidate
select_validated_candidate(policies, rows, snapshots, c) ==
    IF c.candidates = <<>> THEN
        Decision(None, "NO_SAFE_MATCH",
                 IF c.ui_change_level = "ELEMENT_REMOVED" THEN NO_CANDIDATES_REMOVED
                 ELSE IF c.ui_change_level = "MAJOR_CHANGE" THEN NO_CANDIDATES_MAJOR
                 ELSE NO_CANDIDATES,
                 c, LoopStart)
    ELSE
        LET acc == CandidateLoop(policies, rows, snapshots, c, 1, LoopStart) IN
        IF acc.raised THEN Raised
        ELSE IF acc.scored = <<>> THEN
            Decision(None, "NO_SAFE_MATCH",
                     IF c.ui_change_level = "ELEMENT_REMOVED" THEN NONE_PASSED_REMOVED
                     ELSE IF c.ui_change_level = "MAJOR_CHANGE" THEN NONE_PASSED_MAJOR
                     ELSE IF acc.invalid_reasons # <<>>
                         THEN NONE_PASSED \o ". Rejections: "
                                \o Join(Take(acc.invalid_reasons, 3), " | ")
                     ELSE NONE_PASSED,
                     c, acc)
        ELSE
            LET best == BestScored(acc.scored) IN
            IF BelowThreshold(best.final) THEN
                Decision(None, "NO_SAFE_MATCH",
                         TOO_LOW \o " (" \o Fmt3(best.final) \o ")", c, acc)
            ELSE
                Decision(ChosenSelector(c.candidates[best.index]), "VALID", PASSED, c, acc)

-----------------------------------------------------------------------------
(* Stored rows *)

\* curertestai.models.HealerRequest (the columns the engine and the views read)
HealerRequest(failed_selector, html, use_of_selector, url, healed_selector, confidence, success, intent_key, validation_status, ui_change_level, created_on) ==
    [failed_selector |-> failed_selector, html |-> html,
     use_of_selector |-> use_of_selector, url |-> url,
     healed_selector |-> healed_selector, confidence |-> confidence,
     success |-> success, intent_key |-> intent_key,
     validation_status |-> validation_status, ui_change_level |-> ui_change_level,
     created_on |-> created_on]

\* curertestai.models.DomSnapshot (the columns _retrieval_boost reads)
DomSnapshot(page_url, use_of_selector, intent_key, healed_selector, signature_tokens, success, validation_status) ==
    [page_url |-> page_url, use_of_selector |-> use_of_selector,
     intent_key |-> intent_key, healed_selector |-> healed_selector,
     signature_tokens |-> signature_tokens, success |-> success,
     validation_status |-> validation_status]

\* The keyword arguments of select_validated_candidate, and USE_LLM_VALIDATION.
Call(candidates, failed_selector, use_of_selector, page_url, intent_key, current_signature_tokens, ui_change_level, llm_enabled) ==
    [candidates |-> candidates, failed_selector |-> failed_selector,
     use_of_selector |-> use_of_selector, page_url |-> page_url,
     intent_key |-> intent_key, current_signature_tokens |-> current_signature_tokens,
     ui_change_level |-> ui_change_level, llm_enabled |-> llm_enabled]

\* One candidate of the list: what the engine reads of it, and what the
\* advisory scorer answers when asked about it.
Candidate(selector, score, reply) == [selector |-> selector, score |-> score, reply |-> reply]

-----------------------------------------------------------------------------
(* The policy filter on its own: any intent key, intent text and selector, *)
(* under the policy set of the first load.                                 *)

PolicyIntentKeys == {"", "checkout", " Add_To_Cart ", "login"}
PolicyTexts ==
    {"Add to cart", "add item to the cart", "checkout the cart", "open cart",
     "Pay now", "view details", "open menu"}
PolicySelectors ==
    {None, Some("button.add"), Some("BUTTON "), Some("a[href='/x']"),
     Some("a[add]"), Some(" A[Add]"), Some("a[add].bi-bag"), Some("#cart-icon"),
     Some("div.item"), Some("a.pay"), Some("#login"), Some("#view-details")}

\* os.getenv defaults: the cache is on, the advisory scorer is off.
Env(use_healing_cache, use_llm_validation) ==
    [USE_HEALING_CACHE |-> use_healing_cache, USE_LLM_VALIDATION |-> use_llm_validation]
DefaultEnv == Env(TRUE, FALSE)

NoCall == Call(<<>>, "", "", "", "", {}, "UNKNOWN", FALSE)

InitPolicy ==
    /\ Idle
    /\ NoGeneration
    /\ config_file \in ConfigFiles
    /\ policy_cache = None
    /\ rule = None
    /\ db = <<>>
    /\ snaps = <<>>
    /\ call = NoCall
    /\ decision = None
    /\ now = 0
    /\ resp = None
    /\ request = None
    /\ batches = <<>>
    /\ suggested = <<>>
    /\ env = DefaultEnv

\* Somebody writes, replaces or removes config/intent_policies.json.
EditConfig(file) ==
    /\ file # config_file
    /\ config_file' = file
    /\ UNCHANGED <<generation, policy_cache, rule, db, snaps, call, decision, now, resp, request, batches, suggested, env, pipeline>>

\* Line 290: a validation starts and resolves its intent; the exception of a
\* first load that raises leaves select_validated_candidate.
ResolveIntent(intent_key, use_of_selector) ==
    /\ IF policy_cache = None /\ LoadRaises(config_file)
        THEN /\ policy_cache' = None
             /\ rule' = [intent_key |-> intent_key, use_of_selector |-> use_of_selector,
                         intent |-> "", filtered |-> FALSE, selector |-> None,
                         ok |-> FALSE, reason |-> "", raised |-> TRUE]
        ELSE LET policies == _load_intent_policies(policy_cache, config_file) IN
             /\ policy_cache' = Some(policies)
             /\ rule' = [intent_key |-> intent_key, use_of_selector |-> use_of_selector,
                         intent |-> _resolve_intent(policies, intent_key, use_of_selector),
                         filtered |-> FALSE, selector |-> None, ok |-> FALSE,
                         reason |-> "", raised |-> FALSE]
    /\ UNCHANGED <<generation, config_file, db, snaps, call, decision, now, resp, request, batches, suggested, env, pipeline>>

\* Line 300: the validation filters one candidate selector.
FilterCandidate(selector) ==
    /\ rule # None /\ ~rule.raised
    /\ LET policies == _load_intent_policies(policy_cache, config_file)
           verdict == _rule_validate_candidate(policies, rule.intent, selector)
       IN  /\ policy_cache' = Some(policies)
           /\ rule' = [rule EXCEPT !.filtered = TRUE, !.selector = selector,
                                   !.ok = verdict.ok, !.reason = verdict.reason]
    /\ UNCHANGED <<generation, config_file, db, snaps, call, decision, now, resp, request, batches, suggested, env, pipeline>>

NextPolicy ==
    \/ \E file \in ConfigFiles : EditConfig(file)
    \/ \E k \in PolicyIntentKeys, t \in PolicyTexts : ResolveIntent(k, t)
    \/ \E s \in PolicySelectors : FilterCandidate(s)

SpecPolicy == InitPolicy /\ [][NextPolicy]_vars

\* The policy the filter applied in the last FilterCandidate step, and the
\* selector as the filter reads it (trimmed, lower case).
RulePolicy == PolicyFor(policy_cache[1], rule.intent)
RuleSel == _normalize(rule.selector)

\* (a) of C4: every blocked pattern that matches is the ^a[ pattern, under
\* add_to_cart, on a selector that contains "add".
NoBlockedMatch ==
    \A i \in 1..Len(RulePolicy.blocked_selector_patterns) :
        LET p == RulePolicy.blocked_selector_patterns[i] IN
        ReSearch(p, RuleSel) =>
            /\ p.src = "^a\\["
            /\ rule.intent = "add_to_cart"
            /\ Contains(RuleSel, "add")

\* (b) of C4: there is no allowed pattern, or one of them matches.
AllowedHintMatch ==
    \/ RulePolicy.allowed_hint_patterns = <<>>
    \/ \E i \in 1..Len(RulePolicy.allowed_hint_patterns) :
            ReSearch(RulePolicy.allowed_hint_patterns[i], RuleSel)

\* C4: a candidate selector passes the policy filter of the resolved intent if
\* and only if (a) no blocked pattern of that intent matches it, but for the
\* ^a[ pattern under add_to_cart on a selector containing "add", and (b) the
\* intent has no allowed pattern or one of them matches; a rejection by (b)
\* carries the reason INTENT_POLICY_NO_ALLOWED_HINT_MATCH.
C4_PolicyFilter ==
    (rule # None /\ rule.filtered) =>
        /\ rule.ok <=> (NoBlockedMatch /\ AllowedHintMatch)
        /\ (NoBlockedMatch /\ ~AllowedHintMatch) =>
                rule.reason = "INTENT_POLICY_NO_ALLOWED_HINT_MATCH"

\* The waiver at work: under add_to_cart the ^a[ pattern matches a selector
\* that contains "add", and the selector passes.
C4_Witness ==
    /\ rule # None /\ rule.filtered
    /\ rule.intent = "add_to_cart"
    /\ StartsWith(RuleSel, "a[") /\ Contains(RuleSel, "add")
    /\ \E i \in 1..Len(RulePolicy.blocked_selector_patterns) :
            RulePolicy.blocked_selector_patterns[i].src = "^a\\["
    /\ rule.ok

\* A validation has resolved its intent.
Resolved == rule # None /\ ~rule.raised

\* The intent key and the intent text as the resolution reads them.
RuleKey == Lower(Strip(rule.intent_key))
RuleText == Lower(Strip(rule.use_of_selector))
ExplicitKey == RuleKey # "" /\ RuleKey \in DOMAIN policy_cache[1]

TextHas(part) == Contains(RuleText, part)
SaysAddToCart == TextHas("add to cart") \/ (TextHas("add") /\ TextHas("cart"))
SaysPayment == TextHas("pay now") \/ TextHas("payment")

\* The selector of the last FilterCandidate step under the generic policy of
\* the loaded set (no restriction when the set has no generic entry).
GenericVerdict == _rule_validate_candidate(policy_cache[1], "generic", rule.selector)

\* C16, as amended: the resolved intent is the trimmed, lower-cased intent_key
\* when it is a key of the loaded policy set; otherwise the intent text decides,
\* in this order: add_to_cart ("add to cart", or both "add" and "cart"),
\* checkout ("checkout"), cart ("cart"), payment ("pay now" or "payment"),
\* view_details ("view details"), else generic.  The policy applied is the one
\* of the resolved intent when the set has one, and the generic policy
\* otherwise.
C16_IntentResolved ==
    Resolved =>
        /\ ExplicitKey => rule.intent = RuleKey
        /\ ~ExplicitKey =>
            /\ SaysAddToCart => rule.intent = "add_to_cart"
            /\ (~SaysAddToCart /\ TextHas("checkout")) => rule.intent = "checkout"
            /\ (~SaysAddToCart /\ ~TextHas("checkout") /\ TextHas("cart")) =>
                    rule.intent = "cart"
            /\ (~TextHas("cart") /\ ~TextHas("checkout") /\ SaysPayment) =>
                    rule.intent = "payment"
            /\ (~TextHas("cart") /\ ~TextHas("checkout") /\ ~SaysPayment
                    /\ TextHas("view details")) => rule.intent = "view_details"
            /\ (~TextHas("cart") /\ ~TextHas("checkout") /\ ~SaysPayment
                    /\ ~TextHas("view details")) => rule.intent = "generic"
        /\ (rule.filtered /\ rule.intent \notin DOMAIN policy_cache[1]) =>
                (rule.ok = GenericVerdict.ok /\ rule.reason = GenericVerdict.reason)

\* C16, as claimed: without an explicit key of the policy set the intent is
\* add_to_cart for "add to cart", else checkout for "checkout", else payment
\* for "pay now" or "payment", else view_details for "view details", and
\* generic for every other text.
C16_IntentAsListed ==
    (Resolved /\ ~ExplicitKey) =>
        rule.intent =
            IF TextHas("add to cart") THEN "add_to_cart"
            ELSE IF TextHas("checkout") THEN "checkout"
            ELSE IF SaysPayment THEN "payment"
            ELSE IF TextHas("view details") THEN "view_details"
            ELSE "generic"

\* A text that names the cart without "add" resolves to cart, an intent the
\* policy set has no entry for, and a selector the add_to_cart policy blocks
\* passes the filter.
C16_Witness ==
    /\ Resolved
    /\ ~ExplicitKey
    /\ rule.intent = "cart"
    /\ "cart" \notin DOMAIN policy_cache[1]
    /\ rule.filtered /\ rule.ok
    /\ Contains(RuleSel, "cart-icon")

\* C19: the policy set is obtained once: a validation that finds no cached
\* set loads one, which is the built-in default set when the config file is
\* missing, empty or fails to load, and once a set is cached no later step
\* replaces it, whatever the config file holds by then.
C19_LoadedOnce ==
    [][/\ policy_cache # None => policy_cache' = policy_cache
       /\ (policy_cache = None /\ rule' # rule) =>
            /\ policy_cache' # None
            /\ config_file # "custom" => policy_cache' = Some(DEFAULT_INTENT_POLICIES)]_vars

-----------------------------------------------------------------------------
(* select_validated_candidate on its own: the view hands it the ranked     *)
(* candidates of one request, and it reads the stored history and the      *)
(* stored snapshots of the page.                                           *)

MaxCands == 2
MaxHist == 2
MaxSnaps == 1

PageUrl == "https://shop.test/cart"
FailedSelector == "#add-old"
CurrentTokens == {"t1", "t2", "t3", "t4"}

\* What MatchingEngine.rank and _build_heal_response can hand over: the
\* suggested selector, the score rounded to four places, and the answer the
\* advisory scorer gives when it is asked about the candidate.
ValidationCandidates ==
    {Candidate(Some("a[href='/cart']"), 9000, Reply("URLError", 0)),
     Candidate(None, 4100, Reply("bad_shape", 0)),
     Candidate(Some("Button "), 3200, Reply("bad_json", 0)),
     Candidate(Some("button.add"), 3000, Reply("score", 10))}

ValidationTexts == {"Add to cart", "open menu"}
ChangeLevels == {"UNKNOWN", "MAJOR_CHANGE", "ELEMENT_REMOVED"}

\* Rows of earlier heals of the page: saved by _save_heal_request, the second
\* one marked as a failure in the admin afterwards.
HistoryRows ==
    {HealerRequest(FailedSelector, "", "Add to cart", PageUrl, "button.add", 3000, TRUE,
                   "", "VALID", "UNKNOWN", 0),
     HealerRequest(FailedSelector, "", "Add to cart", PageUrl, "BUTTON", 3200, FALSE,
                   "", "VALID", "UNKNOWN", 0)}

SnapshotRows ==
    {DomSnapshot(PageUrl, "Add to cart", "", "button.add", {"t1", "t2", "t3", "t4"},
                 TRUE, "VALID"),
     DomSnapshot(PageUrl, "Add to cart", "", "BUTTON.ADD", {"t1", "t2", "t5"},
                 TRUE, "VALID")}

InitV ==
    /\ Idle
    /\ NoGeneration
    /\ config_file = "missing"
    /\ policy_cache = None
    /\ rule = None
    /\ db = <<>>
    /\ snaps = <<>>
    /\ call = NoCall
    /\ decision = None
    /\ now = 0
    /\ resp = None
    /\ request = None
    /\ batches = <<>>
    /\ suggested = <<>>
    /\ env = DefaultEnv

\* An earlier heal of the page left a row in the history.
StoreHistory(row) ==
    /\ decision = None
    /\ Len(db) < MaxHist
    /\ db' = Append(db, row)
    /\ UNCHANGED <<generation, config_file, policy_cache, rule, snaps, call, decision, now, resp, request, batches, suggested, env, pipeline>>

\* An earlier heal of the page left a snapshot.
StoreSnapshot(snapshot) ==
    /\ decision = None
    /\ Len(snaps) < MaxSnaps
    /\ snaps' = Append(snaps, snapshot)
    /\ UNCHANGED <<generation, config_file, policy_cache, rule, db, call, decision, now, resp, request, batches, suggested, env, pipeline>>

\* The ranking returns one more candidate; rank sorts by falling score.
RankCandidate(candidate) ==
    /\ decision = None
    /\ Len(call.candidates) < MaxCands
    /\ call.candidates # <<>> => candidate.score <= call.candidates[Len(call.candidates)].score
    /\ call' = [call EXCEPT !.candidates = Append(@, candidate)]
    /\ UNCHANGED <<generation, config_file, policy_cache, rule, db, snaps, decision, now, resp, request, batches, suggested, env, pipeline>>

\* select_validated_candidate(candidates, failed_selector, use_of_selector,
\* page_url, intent_key, current_signature_tokens, ui_change_level)
Validate(use_of_selector, llm_enabled, ui_change_level) ==
    /\ decision = None
    /\ LET policies == _load_intent_policies(policy_cache, config_file)
           c == Call(call.candidates, FailedSelector, use_of_selector, PageUrl, "",
                     CurrentTokens, ui_change_level, llm_enabled)
       IN  /\ policy_cache' = Some(policies)
           /\ call' = c
           /\ decision' = select_validated_candidate(policies, db, snaps, c)
    /\ UNCHANGED <<generation, config_file, rule, db, snaps, now, resp, request, batches, suggested, env, pipeline>>

NextV ==
    \/ \E row \in HistoryRows : StoreHistory(row)
    \/ \E snapshot \in SnapshotRows : StoreSnapshot(snapshot)
    \/ \E candidate \in ValidationCandidates : RankCandidate(candidate)
    \/ \E t \in ValidationTexts, e \in BOOLEAN, l \in ChangeLevels : Validate(t, e, l)

SpecV == InitV /\ [][NextV]_vars

\* A call of select_validated_candidate has returned a decision.
Decided == decision # None /\ ~decision.raised

\* The candidates of the decided call, as the claims describe them.
CandidateIds == 1..Len(call.candidates)
ClaimIntent == _resolve_intent(policy_cache[1], call.intent_key, call.use_of_selector)
PassesPolicy(i) ==
    _rule_validate_candidate(policy_cache[1], ClaimIntent, call.candidates[i].selector).ok
Passing == {i \in CandidateIds : PassesPolicy(i)}
HistoryOf(i) ==
    _history_boost(db, call.page_url, call.use_of_selector, call.candidates[i].selector)
RetrievalOf(i) ==
    _retrieval_boost(snaps, call.page_url, call.use_of_selector, call.intent_key,
                     call.candidates[i].selector, call.current_signature_tokens)
AdvisoryOf(i) == _llm_score(call.llm_enabled, call.candidates[i].reply).score
Clamp(x, lo, hi) == IF x < lo THEN lo ELSE IF x > hi THEN hi ELSE x

\* 0.70*rankScore + 0.12*clamp((boost+0.2)/0.4, 0, 1) + 0.10*advisory
\*   + 0.08*clamp(retrievalBoost/0.20, 0, 1), in 1e-6
Blended(i) ==
    (70 * call.candidates[i].score) + (3000 * Clamp(HistoryOf(i).boost + 20, 0, 40))
        + (1000 * AdvisoryOf(i)) + (4000 * Clamp(RetrievalOf(i).boost, 0, 20))
IsBest(i) == i \in Passing /\ \A j \in Passing : Blended(j) <= Blended(i)

\* C1: the decision is VALID only together with a chosen selector that is not
\* null, and NO_SAFE_MATCH only together with chosen = null.
C1_StatusAndChosen ==
    Decided =>
        /\ decision.validation_status \in {"VALID", "NO_SAFE_MATCH"}
        /\ decision.validation_status = "VALID" => decision.chosen # None
        /\ decision.validation_status = "NO_SAFE_MATCH" => decision.chosen = None

\* The best candidate carries no selector at all, and the decision is VALID.
C1_Witness ==
    /\ Decided
    /\ decision.validation_status = "VALID"
    /\ \E i \in CandidateIds : IsBest(i) /\ call.candidates[i].selector = None

\* C2: when at least one candidate passes the policy filter, the decision is
\* VALID if and only if the highest blended score is at least 0.28.
C2_Threshold ==
    (Decided /\ Passing # {}) =>
        (decision.validation_status = "VALID" <=> \E i \in Passing : Blended(i) >= 280000)

\* The highest blended score is exactly 0.28, and the decision is VALID.
C2_Witness ==
    /\ Decided
    /\ \E i \in CandidateIds : IsBest(i) /\ Blended(i) = 280000
    /\ decision.validation_status = "VALID"

\* C3: a VALID decision chooses the selector of a candidate that passed the
\* policy filter and whose blended score is the highest of the passing ones.
C3_BestPassingChosen ==
    (Decided /\ decision.validation_status = "VALID") =>
        \E i \in CandidateIds :
            /\ IsBest(i)
            /\ decision.chosen = Some(OrEmpty(call.candidates[i].selector))

\* The candidate of the highest rank score is rejected by the policy, and the
\* decision is VALID.
C3_Witness ==
    /\ Decided
    /\ decision.validation_status = "VALID"
    /\ ~PassesPolicy(1)
    /\ \A i \in CandidateIds \ {1} : call.candidates[i].score < call.candidates[1].score

\* Candidate i has no matching row in the history, no advisory score and no
\* retrieval boost.
NoSupport(i) ==
    HistoryOf(i).hits = 0 /\ AdvisoryOf(i) = 0 /\ RetrievalOf(i).boost = 0
OnlyUnsupported == Decided /\ Passing # {} /\ \A i \in Passing : NoSupport(i)
TopRank == CHOOSE i \in Passing : \A j \in Passing :
                call.candidates[j].score <= call.candidates[i].score

\* The decision of a call whose passing candidates all have blended score
\* 0.70 * rank score + term: VALID from 0.28 on, and below it the rejection
\* that quotes the best score.
DecidedByRankPlus(term) ==
    LET best == (70 * call.candidates[TopRank].score) + term IN
    /\ decision.validation_status = "VALID" <=> best >= 280000
    /\ decision.validation_status = "NO_SAFE_MATCH" =>
            decision.validation_reason = "Best candidate score too low (" \o Fmt3(best) \o ")"

\* C5, as amended: a policy-passing candidate with no matching row in the
\* history gets history boost 0 and adds no history hit, and the history term
\* of its blended score is the neutral 0.12 * 0.5 = 0.06: with advisory and
\* retrieval both 0 its blended score is 0.70 times its rank score plus 0.06.
C5_NeutralHistoryTerm ==
    /\ Decided => \A i \in Passing : HistoryOf(i).hits = 0 => HistoryOf(i).boost = 0
    /\ OnlyUnsupported =>
        /\ decision.history_hits = 0
        /\ ~decision.history_assisted
        /\ DecidedByRankPlus(60000)

\* C5, as claimed: with no matching row in the history, no advisory score and
\* no retrieval boost the blended score is 0.70 times the rank score.
C5_ZeroHistoryTerm == OnlyUnsupported => DecidedByRankPlus(0)

\* No passing candidate has any support, 0.70 times the best rank score is
\* below 0.28, and the decision is VALID.
C5_Witness ==
    /\ OnlyUnsupported
    /\ 70 * call.candidates[TopRank].score < 280000
    /\ decision.validation_status = "VALID"

\* C6: a NO_SAFE_MATCH decision under ui_change_level ELEMENT_REMOVED or
\* MAJOR_CHANGE carries the reason that names the detected UI change, in each
\* of the three rejection cases.
C6_UiChangeReason ==
    (/\ Decided
     /\ decision.validation_status = "NO_SAFE_MATCH"
     /\ call.ui_change_level \in {"ELEMENT_REMOVED", "MAJOR_CHANGE"}) =>
        decision.validation_reason \in
            IF call.ui_change_level = "ELEMENT_REMOVED"
                THEN {NO_CANDIDATES_REMOVED, NONE_PASSED_REMOVED}
                ELSE {NO_CANDIDATES_MAJOR, NONE_PASSED_MAJOR}

\* The advisory scorer gave candidate i a usable score.
Scored(i) == call.llm_enabled /\ call.candidates[i].reply.kind = "score"

\* C20: with the advisory scorer enabled, a failure while one candidate is
\* scored (no connection, a body that is not JSON, well-formed JSON of an
\* unexpected shape) counts as advisory score 0 for that candidate and the
\* validation still returns its decision over all candidates; with the scorer
\* disabled every advisory score is 0.
C20_ScorerFailuresDegrade ==
    decision # None =>
        /\ ~decision.raised
        /\ \A i \in Passing : ~Scored(i) => AdvisoryOf(i) = 0
        /\ Passing # {} =>
            (decision.validation_status = "VALID" <=> \E i \in Passing : Blended(i) >= 280000)

\* What the decided call returns when it is made again with change level l.
AtLevel(l) ==
    select_validated_candidate(policy_cache[1], db, snaps,
                               [call EXCEPT !.ui_change_level = l])

\* Two returns of select_validated_candidate agree on everything but the
\* reason.
SameVerdict(d, e) ==
    IF d.raised \/ e.raised THEN d.raised = e.raised
    ELSE /\ d.validation_status = e.validation_status
         /\ d.chosen = e.chosen

\* C27: the ui_change_level given to select_validated_candidate influences
\* only validation_reason: calls that differ only in ui_change_level return
\* the same validation_status and the same chosen selector, so MAJOR_CHANGE or
\* ELEMENT_REMOVED alone never turns an accepted candidate into NO_SAFE_MATCH.
C27_ChangeLevelOnlyReason ==
    decision # None => \A l \in ChangeLevels : SameVerdict(decision, AtLevel(l))

\* A candidate was accepted on a page whose change level is MAJOR_CHANGE.
C27_Witness ==
    /\ Decided
    /\ call.ui_change_level = "MAJOR_CHANGE"
    /\ decision.validation_status = "VALID"
    /\ AtLevel("UNKNOWN").validation_status = "VALID"

-----------------------------------------------------------------------------
(* _history_boost on its own, over histories long enough for its limit and *)
(* its clamp.                                                              *)

\* Stored rows of earlier heals: a success and a failure of one selector (the
\* failure stored in another spelling), a success of another selector, a
\* success of the same selector on another page, and a heal that found nothing.
BoostRows ==
    {HealerRequest(FailedSelector, "", "Add to cart", PageUrl, "button.add", 3200, TRUE,
                   "", "VALID", "UNKNOWN", 0),
     HealerRequest(FailedSelector, "", "Add to cart", PageUrl, " BUTTON.ADD", 3200, FALSE,
                   "", "VALID", "UNKNOWN", 0),
     HealerRequest(FailedSelector, "", "Add to cart", PageUrl, "a.other", 3200, TRUE,
                   "", "VALID", "UNKNOWN", 0),
     HealerRequest(FailedSelector, "", "Add to cart", "https://shop.test/list", "button.add",
                   3200, TRUE, "", "VALID", "UNKNOWN", 0),
     HealerRequest(FailedSelector, "", "Add to cart", PageUrl, "", 0, FALSE,
                   "", "NO_SAFE_MATCH", "UNKNOWN", 0)}

\* How many times in a row a heal left the same row.
BoostRuns == {0, 1, 3, 5, HISTORY_LIMIT}

BoostSelectors == {Some("button.add"), Some("Button.Add "), None}

\* n rows like row, one after the other.
Run(row, n) == [i \in 1..n |-> row]

InitHistory ==
    /\ config_file = "missing"
    /\ policy_cache = None
    /\ rule = None
    /\ \E older \in BoostRows, newer \in BoostRows, m \in BoostRuns, n \in BoostRuns :
            db = Run(older, m) \o Run(newer, n)
    /\ snaps = <<>>
    /\ call = NoCall
    /\ decision = None
    /\ now = 0
    /\ resp = None
    /\ request = None
    /\ batches = <<>>
    /\ suggested = <<>>
    /\ env = DefaultEnv
    /\ Idle
    /\ NoGeneration

\* Line 306: history, history_hits = _history_boost(page_url, use_of_selector, selector)
HistoryBoost(selector) ==
    /\ ret' = [fn |-> "_history_boost", page_url |-> PageUrl,
               use_of_selector |-> "Add to cart", candidate_selector |-> selector,
               value |-> _history_boost(db, PageUrl, "Add to cart", selector)]
    /\ UNCHANGED <<generation, config_file, policy_cache, rule, db, snaps, call, decision, now, resp,
                   request, batches, suggested, env, elements, backend, ui_knowledge>>

NextHistory == \E selector \in BoostSelectors : HistoryBoost(selector)

SpecHistory == InitHistory /\ [][NextHistory]_vars

\* _history_boost has returned.
Boosted == ret # None /\ ret.fn = "_history_boost"

\* The stored rows of the page and intent of the call, and the at most 50 most
\* recent of them (rows are stored in creation order).
BoostScope ==
    {j \in 1..Len(db) : db[j].url = ret.page_url /\ db[j].use_of_selector = ret.use_of_selector}
BoostRecent == {j \in BoostScope : Cardinality({k \in BoostScope : k > j}) < 50}

\* Row j carries the selector of the candidate: the same after trimming and
\* lower-casing both, or the very same string.
SameSpelled(j) == Lower(Strip(db[j].healed_selector)) = Lower(Strip(OrEmpty(ret.candidate_selector)))
SameExactly(j) == ret.candidate_selector = Some(db[j].healed_selector)

SuccessesSpelled == Cardinality({j \in BoostRecent : SameSpelled(j) /\ db[j].success})
FailuresSpelled == Cardinality({j \in BoostRecent : SameSpelled(j) /\ ~db[j].success})
SuccessesExactly == Cardinality({j \in BoostRecent : SameExactly(j) /\ db[j].success})
FailuresExactly == Cardinality({j \in BoostRecent : SameExactly(j) /\ ~db[j].success})

\* C17, as amended: the history boost is clamp(0.05*successes - 0.08*failures,
\* -0.2, 0.2), counted over the at most 50 most recent records of the same
\* pageUrl and intentText whose selector equals the candidate's after trimming
\* and lower-casing both; it lies in [-0.2, 0.2], and one such success plus
\* one such failure give -0.03.
C17_HistoryBoost ==
    Boosted =>
        /\ ret.value.boost = Clamp((5 * SuccessesSpelled) - (8 * FailuresSpelled), -20, 20)
        /\ ret.value.hits = SuccessesSpelled + FailuresSpelled
        /\ ret.value.boost >= -20 /\ ret.value.boost <= 20
        /\ (SuccessesSpelled = 1 /\ FailuresSpelled = 1) => ret.value.boost = -3

\* C17, as claimed: the successes and failures are those of the records whose
\* selector is the candidate's exact selector.
C17_ExactSelector ==
    Boosted =>
        ret.value.boost = Clamp((5 * SuccessesExactly) - (8 * FailuresExactly), -20, 20)

\* The candidate has one success and one failure in the history, the failure
\* stored in another spelling of its selector, and the boost is -0.03.
C17_Witness ==
    /\ Boosted
    /\ SuccessesSpelled = 1 /\ FailuresSpelled = 1
    /\ \E j \in BoostRecent : SameSpelled(j) /\ ~SameExactly(j)
    /\ ret.value.boost = -3

-----------------------------------------------------------------------------
(* fingerprint.py: the signature tokens and the fingerprint of a page *)

\* The characters of the pages and of the paths, in code point order.
CodePoints == " !#$%&()*+,-./0123456789:;<=>?@ABCDEFGHIJKLMNOPQRSTUVWXYZ[\\]^_abcdefghijklmnopqrstuvwxyz{|}~"

\* The place of ord(c) among the code points.
Ord(c) == CHOOSE i \in 1..Len(CodePoints) : SubSeq(CodePoints, i, i) = c

\* a < b, for Python str
RECURSIVE StrLess(_, _)
StrLess(a, b) ==
    IF b = "" THEN FALSE
    ELSE IF a = "" THEN TRUE
    ELSE IF SubSeq(a, 1, 1) = SubSeq(b, 1, 1) THEN StrLess(SubSeq(a, 2, Len(a)), SubSeq(b, 2, Len(b)))
    ELSE Ord(SubSeq(a, 1, 1)) < Ord(SubSeq(b, 1, 1))

\* sorted(strings)
RECURSIVE Sorted(_)
Sorted(strings) ==
    IF strings = {} THEN <<>>
    ELSE LET least == CHOOSE s \in strings : \A t \in strings : s = t \/ StrLess(s, t)
         IN  <<least>> \o Sorted(strings \ {least})

\* " ".join(s.split()) of a stripped string
RECURSIVE JoinSplit(_)
JoinSplit(s) ==
    IF s = "" THEN ""
    ELSE IF IsSpace(SubSeq(s, 1, 1)) THEN " " \o JoinSplit(LStrip(s))
    ELSE SubSeq(s, 1, 1) \o JoinSplit(SubSeq(s, 2, Len(s)))

\* An element record of dom_data["elements"]; attributes maps the names of the
\* attributes the element has to their values.
Element(tag, attributes, text, accessible_name, selector) ==
    [tag |-> tag, attributes |-> attributes, text |-> text,
     accessible_name |-> accessible_name, selector |-> selector]

_norm(text) == JoinSplit(Lower(Strip(text)))

TRUNCATE_LEN == 80
_truncate(text) == Take(_norm(text), TRUNCATE_LEN)

SIGNATURE_LIMIT == 800
SIGNATURE_KEYS == {"id", "class", "role", "aria-label", "data-testid", "type", "name"}

\* tokens.add(f"{key}:{value}") if value
TokenOf(key, value) == IF value = "" THEN {} ELSE {key \o ":" \o value}

\* The body of the loop of build_dom_signature_tokens: the tokens of one element.
ElementTokens(el) ==
    TokenOf("tag", _norm(el.tag))
        \cup UNION {TokenOf(key, _norm(Get(el.attributes, key, ""))) : key \in SIGNATURE_KEYS}
        \cup TokenOf("text", _truncate(IF el.text # "" THEN el.text ELSE el.accessible_name))

SignatureOfFirstElement(els) ==
    UNION {ElementTokens(els[i]) : i \in 1..Min(Len(els), 1)}

build_dom_signature_tokens(els) ==
    UNION {ElementTokens(els[i]) : i \in 1..Min(Len(els), SIGNATURE_LIMIT)}

\* hashlib.sha256(payload).hexdigest(): two payloads have the same digest only
\* if they are the same.
Sha256(payload) == <<"sha256", payload>>

generate_dom_fingerprint(els) == Sha256(Join(Sorted(build_dom_signature_tokens(els)), "||"))

-----------------------------------------------------------------------------
(* Selector hints: HealAPIView._extract_selector_hints (views.py) and      *)
(* _selector_hints (change_detection_service.py)                           *)

Ch(s, i) == SubSeq(s, i, i)

\* lit is in s at place i
At(s, i, lit) == i >= 1 /\ i + Len(lit) - 1 <= Len(s) /\ SubSeq(s, i, i + Len(lit) - 1) = lit

\* The length of the longest run of characters of chars in s from place i on,
\* and of characters that are not of chars.
RECURSIVE SpanIn(_, _, _)
SpanIn(s, i, chars) ==
    IF i <= Len(s) /\ Contains(chars, Ch(s, i)) THEN 1 + SpanIn(s, i + 1, chars) ELSE 0

RECURSIVE SpanNotIn(_, _, _)
SpanNotIn(s, i, chars) ==
    IF i <= Len(s) /\ ~Contains(chars, Ch(s, i)) THEN 1 + SpanNotIn(s, i + 1, chars) ELSE 0

\* [a-zA-Z0-9_-], [a-z0-9] and \s
IDENT_CHARS == "abcdefghijklmnopqrstuvwxyzABCDEFGHIJKLMNOPQRSTUVWXYZ0123456789_-"
WORD_CHARS == "abcdefghijklmnopqrstuvwxyz0123456789"
WHITESPACE == " \t\n\r\f"

\* A match is a list of at most one string: group 1 of the leftmost match of
\* re.search, <<>> when the pattern matches nowhere.

\* re.search(r"#([a-zA-Z0-9_-]+)", sel), looked for from place i on
RECURSIVE IdMatch(_, _)
IdGroup(sel, i, run) == IF run >= 1 THEN <<SubSeq(sel, i + 1, i + run)>> ELSE IdMatch(sel, i + 1)
IdMatch(sel, i) ==
    IF i > Len(sel) THEN <<>>
    ELSE IF Ch(sel, i) = "#" THEN IdGroup(sel, i, SpanIn(sel, i + 1, IDENT_CHARS))
    ELSE IdMatch(sel, i + 1)

\* change_detection_service.py, re.search(r'has-text\("([^"]+)"\)', sel) and
\* the same with ': group 1 is the text between the quotes.
RECURSIVE HasTextMatch(_, _, _)
HasTextGroup(sel, i, quote, run) ==
    IF run >= 1 /\ At(sel, i + 10 + run, quote \o ")") THEN <<SubSeq(sel, i + 10, i + 9 + run)>>
    ELSE HasTextMatch(sel, i + 1, quote)
HasTextMatch(sel, i, quote) ==
    IF i > Len(sel) THEN <<>>
    ELSE IF At(sel, i, "has-text(" \o quote) THEN HasTextGroup(sel, i, quote, SpanNotIn(sel, i + 10, quote))
    ELSE HasTextMatch(sel, i + 1, quote)

\* views.py, re.search(r'has-text\\("([^"]+)"\\)', sel) and the same with ':
\* the pattern is has-text, a backslash, and group 1: a quote, a run of
\* characters other than the quote, the quote and a backslash.
RECURSIVE EscapedHasTextMatch(_, _, _)
EscapedHasTextGroup(sel, i, quote, run) ==
    IF run >= 1 /\ At(sel, i + 10 + run, quote \o "\\") THEN <<SubSeq(sel, i + 9, i + 11 + run)>>
    ELSE EscapedHasTextMatch(sel, i + 1, quote)
EscapedHasTextMatch(sel, i, quote) ==
    IF i > Len(sel) THEN <<>>
    ELSE IF At(sel, i, "has-text\\" \o quote) THEN EscapedHasTextGroup(sel, i, quote, SpanNotIn(sel, i + 10, quote))
    ELSE EscapedHasTextMatch(sel, i + 1, quote)

\* The gap of an attribute literal and its quote characters, as the pattern
\* is written: \s* and ["\'] in change_detection_service.py; \\s* and ["\\\']
\* in views.py, which are a backslash with any number of the letter s, and the
\* two quotes and the backslash.
Quotes(escaped) == IF escaped THEN "\"\\'" ELSE "\"'"

\* The place after the gap that begins at place p; 0 when there is no match.
SkipGap(sel, p, escaped) ==
    IF ~escaped THEN p + SpanIn(sel, p, WHITESPACE)
    ELSE IF Ch(sel, p) = "\\" THEN p + 1 + SpanIn(sel, p + 1, "s")
    ELSE 0

\* name\s*=\s*["\']([^"\']+)["\'] matched at place i: <<the place of group 1,
\* its length>>, or <<>>.
AttrGroup(sel, open, run) ==
    IF run >= 1 /\ open + 1 + run <= Len(sel) THEN <<open + 1, run>> ELSE <<>>
AttrQuote(sel, open, escaped) ==
    IF open > 0 /\ open <= Len(sel) /\ Contains(Quotes(escaped), Ch(sel, open))
    THEN AttrGroup(sel, open, SpanNotIn(sel, open + 1, Quotes(escaped)))
    ELSE <<>>
AttrEquals(sel, eq, escaped) ==
    IF eq > 0 /\ Ch(sel, eq) = "=" THEN AttrQuote(sel, SkipGap(sel, eq + 1, escaped), escaped)
    ELSE <<>>
AttrLiteralAt(sel, i, name, escaped) ==
    IF At(sel, i, name) THEN AttrEquals(sel, SkipGap(sel, i + Len(name), escaped), escaped)
    ELSE <<>>

\* a, and b when a is no match
OrElse(a, b) == IF a # <<>> THEN a ELSE b

\* re.search(r'data-testid\s*=\s*["\']([^"\']+)["\']', sel), from place i on
RECURSIVE TestIdMatch(_, _, _)
TestIdGroup(sel, i, escaped, m) ==
    IF m # <<>> THEN <<SubSeq(sel, m[1], m[1] + m[2] - 1)>> ELSE TestIdMatch(sel, i + 1, escaped)
TestIdMatch(sel, i, escaped) ==
    IF i > Len(sel) THEN <<>>
    ELSE TestIdGroup(sel, i, escaped, AttrLiteralAt(sel, i, "data-testid", escaped))

\* (?:id|name|role|aria-label|data-testid)... matched at place i: the first
\* name of the alternation that matches there.
AnyAttrLiteralAt(sel, i, escaped) ==
    OrElse(AttrLiteralAt(sel, i, "id", escaped),
    OrElse(AttrLiteralAt(sel, i, "name", escaped),
    OrElse(AttrLiteralAt(sel, i, "role", escaped),
    OrElse(AttrLiteralAt(sel, i, "aria-label", escaped),
           AttrLiteralAt(sel, i, "data-testid", escaped)))))

\* re.findall of that pattern from place i on: group 1 of the matches that do
\* not overlap, left to right.
RECURSIVE AttrLiteralMatches(_, _, _)
AttrLiteralGroups(sel, i, escaped, m) ==
    IF m # <<>>
    THEN <<SubSeq(sel, m[1], m[1] + m[2] - 1)>> \o AttrLiteralMatches(sel, m[1] + m[2] + 1, escaped)
    ELSE AttrLiteralMatches(sel, i + 1, escaped)
AttrLiteralMatches(sel, i, escaped) ==
    IF i > Len(sel) THEN <<>>
    ELSE AttrLiteralGroups(sel, i, escaped, AnyAttrLiteralAt(sel, i, escaped))

\* views.py, re.findall(r"\\.([a-zA-Z0-9_-]+)", sel) from place i on: a
\* backslash, any character but a newline, and group 1.
RECURSIVE EscapedClassMatches(_, _)
EscapedClassGroups(sel, i, run) ==
    IF run >= 1 THEN <<SubSeq(sel, i + 2, i + 1 + run)>> \o EscapedClassMatches(sel, i + 2 + run)
    ELSE EscapedClassMatches(sel, i + 1)
EscapedClassMatches(sel, i) ==
    IF i + 2 > Len(sel) THEN <<>>
    ELSE IF Ch(sel, i) = "\\" /\ Ch(sel, i + 1) # "\n" THEN EscapedClassGroups(sel, i, SpanIn(sel, i + 2, IDENT_CHARS))
    ELSE EscapedClassMatches(sel, i + 1)

\* The non-empty tokens of re.split(r"[^a-z0-9]+", use_text)
RECURSIVE Words(_)
WordsAfter(s, run) ==
    IF run = 0 THEN Words(SubSeq(s, 2, Len(s)))
    ELSE <<SubSeq(s, 1, run)>> \o Words(SubSeq(s, run + 1, Len(s)))
Words(s) == IF s = "" THEN <<>> ELSE WordsAfter(s, SpanIn(s, 1, WORD_CHARS))

STOP_WORDS == {"click", "button", "first", "with", "self", "healing"}

\* generic_words: the meaningful words of the step text
Meaningful(token) == Len(token) >= 4 /\ token \notin STOP_WORDS
GenericWords(use_text) == SelectSeq(Words(use_text), Meaningful)

StripLower(h) == Lower(Strip(h))

\* [h.strip() for h in hints] and [h.strip().lower() for h in hints]
Stripped(hints) == [k \in 1..Len(hints) |-> Strip(hints[k])]
StrippedLower(hints) == [k \in 1..Len(hints) |-> StripLower(hints[k])]

\* The de-duplication loop: the hints normalised, those shorter than 3
\* characters and those seen before dropped.
RECURSIVE Normalized(_, _)
NormalizedNext(val, rest, seen) ==
    IF Len(val) < 3 \/ val \in seen THEN Normalized(rest, seen)
    ELSE <<val>> \o Normalized(rest, seen \cup {val})
Normalized(hints, seen) ==
    IF hints = <<>> THEN <<>>
    ELSE NormalizedNext(Lower(Strip(JoinSplit(Strip(Head(hints))))), Tail(hints), seen)

\* views.py, HealAPIView._extract_selector_hints, from sel and use_text on
ExtractedHints(sel, use_text) ==
    Stripped(EscapedHasTextMatch(sel, 1, "\""))
        \o Stripped(EscapedHasTextMatch(sel, 1, "'"))
        \o StrippedLower(IdMatch(sel, 1))
        \o StrippedLower(TestIdMatch(sel, 1, TRUE))
        \o StrippedLower(Take(AttrLiteralMatches(sel, 1, TRUE), 3))
        \o StrippedLower(Take(EscapedClassMatches(sel, 1), 2))
        \o Take(GenericWords(use_text), 4)

_extract_selector_hints(failed_selector, use_of_selector) ==
    Take(Normalized(ExtractedHints(StripLower(failed_selector), StripLower(use_of_selector)), {}), 5)

\* change_detection_service.py, _selector_hints, from sel and use_text on
SelectorHints(sel, use_text) ==
    Stripped(HasTextMatch(sel, 1, "\""))
        \o Stripped(HasTextMatch(sel, 1, "'"))
        \o StrippedLower(IdMatch(sel, 1))
        \o StrippedLower(TestIdMatch(sel, 1, FALSE))
        \o StrippedLower(Take(AttrLiteralMatches(sel, 1, FALSE), 3))
        \o Take(GenericWords(use_text), 4)

_selector_hints(failed_selector, use_of_selector) ==
    Take(Normalized(SelectorHints(StripLower(failed_selector), StripLower(use_of_selector)), {}), 6)

HINT_SCAN_LIMIT == 1000

\* The blob of one element in _selector_hint_exists
Blob(el) ==
    Lower(Join(<<el.text, el.accessible_name, el.selector,
                 Get(el.attributes, "id", ""), Get(el.attributes, "class", ""),
                 Get(el.attributes, "data-testid", ""), Get(el.attributes, "aria-label", ""),
                 Get(el.attributes, "name", "")>>, " "))

\* views.py, HealAPIView._selector_hint_exists
_selector_hint_exists(els, hints) ==
    /\ hints # <<>>
    /\ \E i \in 1..Min(Len(els), HINT_SCAN_LIMIT) :
            \E k \in 1..Len(hints) : Contains(Blob(els[i]), hints[k])

-----------------------------------------------------------------------------
(* The fingerprint on its own, over element lists and their rearrangements *)

AddButton ==
    Element("button", [id |-> "add-btn", class |-> "btn primary"], " Add  to Cart", "", "#add-btn")
CartLink ==
    Element("A", ("data-testid" :> "cart-icon") @@ [href |-> "/cart"], "", "View cart", "a.cart")
Panel == Element("div", <<>>, "", "", "div")
Blank == Element("", <<>>, "   ", "hidden", "")

PageElements == {AddButton, CartLink, Panel, Blank}

\* The longest list of the short pages.
MaxElems == 3

\* A page of more elements than the signature reads: panels, and the add
\* button as its last element.
LongPage == [i \in 1..(SIGNATURE_LIMIT + 1) |-> IF i <= SIGNATURE_LIMIT THEN Panel ELSE AddButton]

ElementLists == UNION {[1..n -> PageElements] : n \in 0..MaxElems} \cup {LongPage}

\* The service has not been used.
Unused ==
    /\ config_file = "missing"
    /\ policy_cache = None
    /\ rule = None
    /\ db = <<>>
    /\ snaps = <<>>
    /\ call = NoCall
    /\ decision = None
    /\ now = 0
    /\ resp = None
    /\ request = None
    /\ batches = <<>>
    /\ suggested = <<>>
    /\ env = DefaultEnv

InitFingerprint ==
    /\ Unused
    /\ NoGeneration
    /\ elements \in ElementLists
    /\ backend = None
    /\ ui_knowledge = None
    /\ ret = None

\* The positions a rearrangement exchanges: any two of a short page, the first
\* and the last of the long one.
Places(els) == IF Len(els) <= MaxElems + 1 THEN 1..Len(els) ELSE {1, Len(els)}

\* The caller hands over the same elements in another order.
Shuffle(i, j) ==
    /\ elements[i] # elements[j]
    /\ elements' = [elements EXCEPT ![i] = elements[j], ![j] = elements[i]]
    /\ UNCHANGED <<generation, service, backend, ui_knowledge, ret>>

\* What a fingerprint call returned, without the call before it.
Taken(r) == [elements |-> r.elements, tokens |-> r.tokens, value |-> r.value]

\* build_dom_signature_tokens(elements) and generate_dom_fingerprint(elements);
\* the result of the call before is kept for comparison.
Fingerprint ==
    /\ IF ret = None THEN TRUE ELSE ret.earlier = None
    /\ ret' = [fn |-> "generate_dom_fingerprint", elements |-> elements,
               tokens |-> build_dom_signature_tokens(elements),
               value |-> generate_dom_fingerprint(elements),
               earlier |-> IF ret = None THEN None ELSE Taken(ret)]
    /\ UNCHANGED <<generation, service, elements, backend, ui_knowledge>>

NextFingerprint ==
    \/ \E i \in Places(elements), j \in Places(elements) : Shuffle(i, j)
    \/ Fingerprint

SpecFingerprint == InitFingerprint /\ [][NextFingerprint]_vars

\* The fingerprint has been taken of a list and of a permutation of it.
Times(els, el) == Cardinality({i \in 1..Len(els) : els[i] = el})

Permutation(a, b) ==
    /\ Len(a) = Len(b)
    /\ \A el \in PageElements : Times(a, el) = Times(b, el)

TakenTwice ==
    /\ ret # None
    /\ ret.fn = "generate_dom_fingerprint"
    /\ ret.earlier # None
    /\ Permutation(ret.elements, ret.earlier.elements)

SameFingerprint == ret.tokens = ret.earlier.tokens /\ ret.value = ret.earlier.value

\* C12, as amended: two fingerprints taken of an element list of at most 800
\* elements and of a permutation of it have the same token set and the same
\* digest; of a longer list only the first 800 elements are read, and the
\* token set is that of these.
C12_OrderIndependentUpToLimit ==
    TakenTwice =>
        /\ Len(ret.elements) <= SIGNATURE_LIMIT => SameFingerprint
        /\ ret.tokens = UNION {ElementTokens(ret.elements[i]) : i \in 1..Min(Len(ret.elements), SIGNATURE_LIMIT)}

\* C12, as claimed: the token set and the digest are the same for a list of
\* any length, lists of more than 800 elements included.
C12_OrderIndependent == TakenTwice => SameFingerprint

\* A list of several elements and a different order of it gave the same
\* tokens and the same digest.
C12_Witness ==
    /\ TakenTwice
    /\ ret.elements # ret.earlier.elements
    /\ Cardinality(ret.tokens) > 1
    /\ SameFingerprint

-----------------------------------------------------------------------------
(* jaccard_similarity on its own, over the subsets of a few signature tokens *)

TokenPool == <<"tag:button", "id:add", "text:add to cart", "role:button", "class:btn">>
MaxTokens == 3
TokenSets == SUBSET {TokenPool[i] : i \in 1..MaxTokens}

InitJaccard == Unused /\ Idle /\ NoGeneration

\* jaccard_similarity(a, b)
JaccardSimilarity(a, b) ==
    /\ ret = None
    /\ ret' = [fn |-> "jaccard_similarity", a |-> a, b |-> b,
               value |-> jaccard_similarity(a, b), earlier |-> None]
    /\ UNCHANGED <<generation, service, elements, backend, ui_knowledge>>

\* jaccard_similarity(b, a), of the arguments of the call before
JaccardSwapped ==
    /\ ret # None
    /\ IF ret = None THEN FALSE ELSE ret.earlier = None
    /\ ret' = [fn |-> "jaccard_similarity", a |-> ret.b, b |-> ret.a,
               value |-> jaccard_similarity(ret.b, ret.a), earlier |-> Some(ret.value)]
    /\ UNCHANGED <<generation, service, elements, backend, ui_knowledge>>

NextJaccard ==
    \/ \E a \in TokenSets, b \in TokenSets : JaccardSimilarity(a, b)
    \/ JaccardSwapped

SpecJaccard == InitJaccard /\ [][NextJaccard]_vars

\* Fractions <<numerator, denominator>> with positive denominators.
SameFraction(x, y) == x[1] * y[2] = y[1] * x[2]
IsZero(x) == x[1] = 0
IsOne(x) == x[1] = x[2]

\* C22: jaccard_similarity is symmetric and bounded: jaccard(A,B) =
\* jaccard(B,A), 0 <= jaccard(A,B) <= 1, jaccard(A,A) = 1 for every non-empty
\* A, and jaccard of an empty set with any set, the empty one included, is 0.
C22_Jaccard ==
    IF ret = None THEN TRUE
    ELSE /\ ret.value[2] > 0 /\ 0 <= ret.value[1] /\ ret.value[1] <= ret.value[2]
         /\ (ret.a = ret.b /\ ret.a # {}) => IsOne(ret.value)
         /\ (ret.a = {} \/ ret.b = {}) => IsZero(ret.value)
         /\ ret.earlier # None => SameFraction(ret.value, ret.earlier[1])

\* Two sets that share a token and differ in another were compared both ways:
\* the similarity lies strictly between 0 and 1.
C22_Witness ==
    /\ ret # None
    /\ IF ret = None THEN FALSE ELSE ret.earlier # None
    /\ IF ret = None THEN FALSE ELSE
        /\ ret.a # ret.b /\ ret.a \cap ret.b # {}
        /\ ~IsZero(ret.value) /\ ~IsOne(ret.value)

-----------------------------------------------------------------------------
(* The change level of a page: detect_ui_change_for_healing of ui_knowledge *)
(* and HealAPIView._detect_ui_change_level                                  *)

\* A UIRouteSnapshot: its id and _extract_selector_set of it.
Snapshot(id, selectors) == [id |-> id, selectors |-> selectors]

\* What ui_knowledge holds for the page of the request (None: no active UIPage):
\*   raises    the look-up fails (the database cannot be reached, say)
\*   baseline  the latest BASELINE snapshot, or None
\*   current   the current snapshot, or None
\*   severity  the severity compare_snapshots reports for the two
UiPage(raises, baseline, current, severity) ==
    [raises |-> raises, baseline |-> baseline, current |-> current, severity |-> severity]

\* Lines 256-262: HIGH -> MAJOR_CHANGE, MEDIUM -> MINOR_CHANGE, else UNCHANGED
SeverityLevel(sev) ==
    IF sev = "HIGH" THEN "MAJOR_CHANGE"
    ELSE IF sev = "MEDIUM" THEN "MINOR_CHANGE"
    ELSE "UNCHANGED"

\* any(any(h in s for s in selectors) for h in hints)
HintInSelectors(hints, selectors) ==
    \E k \in 1..Len(hints) : \E s \in selectors : Contains(s, hints[k])

\* Lines 245-262: the level of two different snapshots
SnapshotsLevel(page, hints) ==
    IF /\ hints # <<>>
       /\ HintInSelectors(hints, page.baseline.selectors)
       /\ ~HintInSelectors(hints, page.current.selectors)
    THEN "ELEMENT_REMOVED"
    ELSE SeverityLevel(page.severity)

\* detect_ui_change_for_healing(...)["ui_change_level"], for a look-up that
\* does not fail
detect_ui_change_for_healing(page, failed_selector, use_of_selector) ==
    IF page = None THEN "UNKNOWN"
    ELSE IF page.baseline = None \/ page.current = None THEN "UNKNOWN"
    ELSE IF page.baseline.id = page.current.id THEN "UNCHANGED"
    ELSE SnapshotsLevel(page, _selector_hints(failed_selector, use_of_selector))

\* DOMExtractor(html).extract_semantic_dom(full_coverage=True) of the pages
\* posted in the requests: whether it raises, and the elements it gives.
Extraction(raises, els) == [raises |-> raises, elements |-> els]

DetailsLink ==
    Element("a", [class |-> "details"], "View Details", "View Details", "a.details")

ExtractSemanticDom(html) ==
    CASE html = "<cart: add button, cart link>" -> Extraction(FALSE, <<AddButton, CartLink>>)
      [] html = "<cart: cart link>" -> Extraction(FALSE, <<CartLink>>)
      [] html = "<cart: details link, panel>" -> Extraction(FALSE, <<DetailsLink, Panel>>)
      [] html = "<cart: panel>" -> Extraction(FALSE, <<Panel>>)
      [] html = "<cart: blank>" -> Extraction(FALSE, <<Blank>>)
      [] html = "<cart: nothing>" -> Extraction(FALSE, <<>>)
      [] OTHER -> Extraction(TRUE, <<>>)

\* Lines 506-516: the latest successful heal of the page and step text that
\* kept its html, one of the same intent_key first; 0 when there is none.
LastOf(S) == IF S = {} THEN 0 ELSE CHOOSE j \in S : \A k \in S : k <= j

BaseQuery(rows, page_url, use_of_selector) ==
    {j \in 1..Len(rows) :
        /\ rows[j].url = page_url
        /\ rows[j].use_of_selector = use_of_selector
        /\ rows[j].success
        /\ rows[j].html # ""}

PreviousOf(rows, base_query, intent_key) ==
    IF intent_key # "" /\ \E j \in base_query : rows[j].intent_key = intent_key
    THEN LastOf({j \in base_query : rows[j].intent_key = intent_key})
    ELSE LastOf(base_query)

PreviousRow(rows, page_url, use_of_selector, intent_key) ==
    PreviousOf(rows, BaseQuery(rows, page_url, use_of_selector), intent_key)

\* Lines 538-547: the level of the Jaccard similarity of the two signatures
LevelOf(similarity) ==
    IF AtLeast(similarity, 90) THEN "UNCHANGED"
    ELSE IF AtLeast(similarity, 70) THEN "MINOR_CHANGE"
    ELSE "MAJOR_CHANGE"

SimilarityLevel(previous_elements, current_elements) ==
    LevelOf(jaccard_similarity(build_dom_signature_tokens(previous_elements),
                               build_dom_signature_tokens(current_elements)))

\* Lines 525-547: the level against the elements of the stored heal
AgainstPrevious(previous_dom, hints, current_elements) ==
    IF previous_dom.raises THEN "UNKNOWN"
    ELSE IF /\ hints # <<>>
            /\ _selector_hint_exists(previous_dom.elements, hints)
            /\ ~_selector_hint_exists(current_elements, hints)
         THEN "ELEMENT_REMOVED"
    ELSE SimilarityLevel(previous_dom.elements, current_elements)

\* Lines 506-547 of _detect_ui_change_level: the healer's own heuristic, from
\* the stored heal previous (0: none), the hints and the current elements.
HealerHeuristic(rows, previous, hints, current_elements) ==
    IF previous = 0
    THEN IF hints # <<>> /\ ~_selector_hint_exists(current_elements, hints)
         THEN "MINOR_CHANGE" ELSE "UNKNOWN"
    ELSE AgainstPrevious(ExtractSemanticDom(rows[previous].html), hints, current_elements)

\* Lines 494-504: the level of ui_knowledge, UNKNOWN when the look-up raises
PrimarySignal(page, failed_selector, use_of_selector) ==
    IF page # None /\ page.raises THEN "UNKNOWN"
    ELSE detect_ui_change_for_healing(page, failed_selector, use_of_selector)

\* Lines 501-547: the level that is returned, given that of ui_knowledge
LevelOrHeuristic(level, rows, current_elements, page_url, use_of_selector, intent_key, failed_selector) ==
    IF level # "UNKNOWN" THEN level
    ELSE HealerHeuristic(rows, PreviousRow(rows, page_url, use_of_selector, intent_key),
                         _extract_selector_hints(failed_selector, use_of_selector),
                         current_elements)

DetectWithoutSignal(rows, page, current_elements, page_url, use_of_selector, intent_key, failed_selector) ==
    LevelOrHeuristic("UNKNOWN", rows, current_elements, page_url, use_of_selector, intent_key,
                     failed_selector)

\* HealAPIView._detect_ui_change_level
_detect_ui_change_level(rows, page, current_elements, page_url, use_of_selector, intent_key, failed_selector) ==
    LevelOrHeuristic(PrimarySignal(page, failed_selector, use_of_selector), rows,
                     current_elements, page_url, use_of_selector, intent_key, failed_selector)

-----------------------------------------------------------------------------
(* The change level on its own, over stored heals, ui_knowledge pages and *)
(* current elements                                                       *)

\* A heal of the cart page as it is stored.
Healed(html, intent_key, success, created_on) ==
    HealerRequest(FailedSelector, html, "Add to cart", PageUrl, IF success THEN "button.add" ELSE "",
                  3200, success, intent_key, IF success THEN "VALID" ELSE "NO_SAFE_MATCH",
                  "UNKNOWN", created_on)

\* The heals of the page that may be stored: one of each page source, one
\* that kept no source, one of the add_to_cart intent and one that failed.
StoredHeals ==
    {Healed(html, "", TRUE, 0) :
        html \in {"<cart: add button, cart link>", "<cart: details link, panel>", "<cart: blank>",
                  "<cart: nothing>", "<cart: unreadable>", ""}}
    \cup {Healed("<cart: add button, cart link>", "add_to_cart", TRUE, 0),
          Healed("<cart: add button, cart link>", "", FALSE, 0)}

\* The elements of the page now.
ChangeElements ==
    {<<AddButton, CartLink>>, <<CartLink>>, <<DetailsLink, Panel>>, <<Blank>>, <<>>}

BaselineSnapshot == Snapshot(1, {"#add-old", "a.cart"})
ChangedSnapshot == Snapshot(2, {"#add-btn", "a.cart"})
EmptiedSnapshot == Snapshot(3, {"div.panel"})

UiPages ==
    {None, UiPage(TRUE, None, None, "LOW"), UiPage(FALSE, None, ChangedSnapshot, "LOW"),
     UiPage(FALSE, BaselineSnapshot, BaselineSnapshot, "LOW"),
     UiPage(FALSE, BaselineSnapshot, ChangedSnapshot, "LOW"),
     UiPage(FALSE, BaselineSnapshot, ChangedSnapshot, "MEDIUM"),
     UiPage(FALSE, BaselineSnapshot, ChangedSnapshot, "HIGH"),
     UiPage(FALSE, BaselineSnapshot, EmptiedSnapshot, "LOW"),
     UiPage(FALSE, BaselineSnapshot, EmptiedSnapshot, "HIGH")}

\* How many heals of the page are stored at most.
MaxHeals == 1

InitChange ==
    /\ Unused
    /\ NoGeneration
    /\ elements \in ChangeElements
    /\ backend = None
    /\ ui_knowledge \in UiPages
    /\ ret = None

\* Lines 403-427: a heal of the page is stored, before the request at hand.
StoreHeal(row) ==
    /\ ret = None
    /\ Len(db) < MaxHeals
    /\ db' = Append(db, row)
    /\ UNCHANGED <<generation, config_file, policy_cache, rule, snaps, call, decision, now, resp, request,
                   batches, suggested, env, pipeline>>

FailedSelectors == {"#add-old", "a:has-text(\"View Details\")"}
StepTexts == {"Add to cart", "go"}

\* Line 253: ui_change_level = self._detect_ui_change_level(data, current_elements)
DetectUiChangeLevel(failed_selector, use_of_selector, intent_key) ==
    /\ ret = None
    /\ ret' = [fn |-> "_detect_ui_change_level", failed_selector |-> failed_selector,
               use_of_selector |-> use_of_selector, intent_key |-> intent_key,
               value |-> _detect_ui_change_level(db, ui_knowledge, elements, PageUrl,
                                                 use_of_selector, intent_key, failed_selector)]
    /\ UNCHANGED <<generation, service, elements, backend, ui_knowledge>>

NextChange ==
    \/ \E row \in StoredHeals : StoreHeal(row)
    \/ \E failed_selector \in FailedSelectors, use_of_selector \in StepTexts, intent_key \in {"", "add_to_cart"} :
            DetectUiChangeLevel(failed_selector, use_of_selector, intent_key)

SpecChange ==
    /\ InitChange
    /\ [][NextChange]_vars


\* _detect_ui_change_level has returned.
Classified == ret # None /\ ret.fn = "_detect_ui_change_level"

\* The external diff signal is available: ui_knowledge answers, and it has a
\* baseline and a current snapshot of the page.
SignalAvailable ==
    /\ ui_knowledge # None
    /\ ~ui_knowledge.raises
    /\ ui_knowledge.baseline # None
    /\ ui_knowledge.current # None

\* The stored heal that is the baseline of the call (0: none), and its elements.
BaselineRow == PreviousRow(db, PageUrl, ret.use_of_selector, ret.intent_key)
BaselineDom == ExtractSemanticDom(db[BaselineRow].html)
BaselineRead == BaselineRow # 0 /\ ~BaselineDom.raises

\* The hints the classifier derives for the call.
CallHints == _extract_selector_hints(ret.failed_selector, ret.use_of_selector)

\* The baseline and the current element list are the same list, and there is
\* no external signal.
IdenticalLists == Classified /\ ~SignalAvailable /\ BaselineRead /\ BaselineDom.elements = elements

\* C13, as amended: with identical baseline and current element lists and no
\* external diff signal, the change level is UNCHANGED when the list produces
\* at least one signature token, and MAJOR_CHANGE when it produces none (an
\* empty list included).
C13_IdenticalLists ==
    IdenticalLists =>
        ret.value = IF build_dom_signature_tokens(elements) # {} THEN "UNCHANGED" ELSE "MAJOR_CHANGE"

\* C13, as claimed: the change level is UNCHANGED for every such list.
C13_AlwaysUnchanged == IdenticalLists => ret.value = "UNCHANGED"

\* Identical lists that produce tokens were classified UNCHANGED.
C13_Witness ==
    /\ IdenticalLists
    /\ build_dom_signature_tokens(elements) # {}
    /\ ret.value = "UNCHANGED"

\* Some element of the list has sub in its text, whatever the case.
TextHolds(els, sub) == \E i \in 1..Len(els) : Contains(Lower(els[i].text), sub)

\* C14: with a baseline and no external diff signal, a derived hint that was
\* in the baseline elements and is in none of the current ones gives
\* ELEMENT_REMOVED; so does the intent "add to cart" with a baseline element of
\* text "Add to Cart" when no current element has "add" in its text.
C14_ElementRemoved ==
    (Classified /\ ~SignalAvailable /\ BaselineRead) =>
        /\ (\E k \in 1..Len(CallHints) :
                /\ _selector_hint_exists(BaselineDom.elements, <<CallHints[k]>>)
                /\ ~_selector_hint_exists(elements, <<CallHints[k]>>))
            => ret.value = "ELEMENT_REMOVED"
        /\ (/\ Lower(ret.use_of_selector) = "add to cart"
            /\ \E i \in 1..Len(BaselineDom.elements) : _norm(BaselineDom.elements[i].text) = "add to cart"
            /\ ~TextHolds(elements, "add"))
            => ret.value = "ELEMENT_REMOVED"

\* The level ui_knowledge gives when its signal is available: UNCHANGED for a
\* baseline that is the current snapshot, ELEMENT_REMOVED when a hint is in a
\* selector of the baseline snapshot and in none of the current one, else the
\* level of the severity.
SignalLevel ==
    IF ui_knowledge.baseline.id = ui_knowledge.current.id THEN "UNCHANGED"
    ELSE IF /\ HintInSelectors(_selector_hints(ret.failed_selector, ret.use_of_selector), ui_knowledge.baseline.selectors)
            /\ ~HintInSelectors(_selector_hints(ret.failed_selector, ret.use_of_selector), ui_knowledge.current.selectors)
         THEN "ELEMENT_REMOVED"
    ELSE SeverityLevel(ui_knowledge.severity)

\* The textual classification of the call.
TextualLevel == HealerHeuristic(db, BaselineRow, CallHints, elements)

-----------------------------------------------------------------------------
(* matching_engine.py: MatchingEngine and its rank                         *)
(*                                                                         *)
(* A similarity and an attribute score are counted in 1e-4, a final score  *)
(* in 1e-5.  What the embedding model makes of the texts is an input: sims *)
(* holds the similarity of the query to each element.                      *)

\* The build of the engine: faiss_ok tells whether the faiss index is in use
\* (faiss is installed and took the embeddings); otherwise the index is
\* sklearn's NearestNeighbors.
Backend(faiss_ok, sims) == [faiss_ok |-> faiss_ok, sims |-> sims]

\* What a method gives: an exception, or its value.
Raises(error) == [raised |-> TRUE, error |-> error, value |-> <<>>]
Returns(value) == [raised |-> FALSE, error |-> "", value |-> value]

\* s.split()
RECURSIVE Split(_)
SplitAfter(s, run) ==
    IF run = 0 THEN Split(SubSeq(s, 2, Len(s)))
    ELSE <<SubSeq(s, 1, run)>> \o Split(SubSeq(s, run + 1, Len(s)))
Split(s) == IF s = "" THEN <<>> ELSE SplitAfter(s, SpanNotIn(s, 1, WHITESPACE))

SetOf(seq) == {seq[k] : k \in 1..Len(seq)}

\* overlap_ratio(a, b), as the fraction <<numerator, denominator>>
OverlapOf(a_tokens, b_tokens) ==
    IF a_tokens = {} \/ b_tokens = {} THEN <<0, 1>>
    ELSE <<Cardinality(a_tokens \cap b_tokens), Cardinality(a_tokens \cup b_tokens)>>
overlap_ratio(a, b) == OverlapOf(SetOf(Split(Lower(a))), SetOf(Split(Lower(b))))

\* weight * ratio, in 1e-4
Weighted(weight, ratio) == (weight * ratio[1]) \div ratio[2]

\* re.findall(r"\.([\w\-]+)", selector), from place i on
RECURSIVE ClassMatches(_, _)
ClassGroups(sel, i, run) ==
    IF run >= 1 THEN <<SubSeq(sel, i + 1, i + run)>> \o ClassMatches(sel, i + 1 + run)
    ELSE ClassMatches(sel, i + 1)
ClassMatches(sel, i) ==
    IF i > Len(sel) THEN <<>>
    ELSE IF Ch(sel, i) = "." THEN ClassGroups(sel, i, SpanIn(sel, i + 1, IDENT_CHARS))
    ELSE ClassMatches(sel, i + 1)

\* Lines 172-174: the id of the failed selector is the id of the element
IdScore(attrs, found) ==
    IF found # <<>> /\ Get(attrs, "id", "") = found[1] THEN 6000 ELSE 0

\* Lines 185-188: a class of the element is a class of the failed selector
ClassScore(attrs, selector) ==
    IF SetOf(Split(Get(attrs, "class", ""))) \cap SetOf(ClassMatches(selector, 1)) # {}
    THEN 2000 ELSE 0

\* MatchingEngine.attribute_score
attribute_score(el, selector, semantic) ==
    Min(10000, IdScore(el.attributes, IdMatch(selector, 1))
                + Weighted(3000, overlap_ratio(Get(el.attributes, "aria-label", ""), semantic))
                + Weighted(2000, overlap_ratio(Get(el.attributes, "href", ""), semantic))
                + ClassScore(el.attributes, selector))

\* The similarity faiss reports with the label -1, when the index holds fewer
\* than top_k vectors: it stands for -3.4028235e38, below every similarity.
FAISS_NO_NEIGHBOR == -100000000

\* The places of the elements, nearest to the query first.
RECURSIVE Nearest(_, _)
NearestThen(sims, left, best) == <<best>> \o Nearest(sims, left \ {best})
Nearest(sims, left) ==
    IF left = {} THEN <<>>
    ELSE NearestThen(sims, left, CHOOSE i \in left : \A j \in left : sims[j] < sims[i] \/ (sims[j] = sims[i] /\ i <= j))

\* MatchingEngine.retrieve: the labels (places counted from 0, -1 for none)
\* and the similarities of the top_k nearest elements.
Neighbor(idx, sim) == [idx |-> idx, sim |-> sim]

FaissSearch(sims, order, top_k) ==
    [k \in 1..top_k |->
        IF k <= Len(order) THEN Neighbor(order[k] - 1, sims[order[k]])
        ELSE Neighbor(-1, FAISS_NO_NEIGHBOR)]

Kneighbors(sims, order, top_k) ==
    IF top_k > Len(order) THEN Raises("ValueError: Expected n_neighbors <= n_samples_fit")
    ELSE Returns([k \in 1..top_k |-> Neighbor(order[k] - 1, sims[order[k]])])

retrieve(build, top_k) ==
    IF build.faiss_ok THEN Returns(FaissSearch(build.sims, Nearest(build.sims, DOMAIN build.sims), top_k))
    ELSE Kneighbors(build.sims, Nearest(build.sims, DOMAIN build.sims), top_k)

\* self.elements[idx], for a Python index
ElementAt(els, idx) == IF idx < 0 THEN els[Len(els) + 1 + idx] ELSE els[idx + 1]

\* Lines 198-212: the result of one neighbour
RankedOf(idx, base, attr) == [index |-> idx, score |-> (7 * base) + (3 * attr), base |-> base, attr |-> attr]

Ranked(els, neighbor, selector, semantic) ==
    RankedOf(neighbor.idx, neighbor.sim, attribute_score(ElementAt(els, neighbor.idx), selector, semantic))

\* results.sort(key=lambda x: -x["score"]): a stable sort
RECURSIVE SortedByScore(_)
SortedFrom(results, top) ==
    <<results[top]>> \o SortedByScore([k \in 1..(Len(results) - 1) |-> IF k < top THEN results[k] ELSE results[k + 1]])
SortedByScore(results) ==
    IF results = <<>> THEN <<>>
    ELSE SortedFrom(results, CHOOSE i \in 1..Len(results) :
                                /\ \A j \in 1..Len(results) : results[j].score <= results[i].score
                                /\ \A j \in 1..(i - 1) : results[j].score < results[i].score)

\* Lines 196-215 of rank, given what retrieve returned
RankNeighbors(els, neighbors, selector, semantic) ==
    IF neighbors.raised THEN neighbors
    ELSE Returns(SortedByScore([k \in 1..Len(neighbors.value) |->
                                    Ranked(els, neighbors.value[k], selector, semantic)]))

\* MatchingEngine(elements): the embedding of an empty corpus raises
\* (TfidfVectorizer: empty vocabulary; SentenceTransformer: the array of no
\* texts has no second dimension for line 132).
MatchingEngine(els) ==
    IF els = <<>> THEN Raises("ValueError: empty vocabulary") ELSE Returns(els)

\* MatchingEngine(elements).rank(selector, semantic, top_k)
rank(els, build, selector, semantic, top_k) ==
    IF MatchingEngine(els).raised THEN MatchingEngine(els)
    ELSE RankNeighbors(els, retrieve(build, top_k), selector, semantic)

-----------------------------------------------------------------------------
(* The ranking on its own, over element lists, builds and top_k *)

RankElements ==
    {<<>>, <<AddButton>>, <<AddButton, CartLink>>, <<CartLink, AddButton>>,
     <<DetailsLink, CartLink, AddButton>>, <<AddButton, CartLink, DetailsLink, Panel, Blank>>}

\* The similarities an embedding may give to five elements.
Similarities == {<<9000, 5000, 1000, 300, 0>>, <<1000, 9000, 5000, 5000, 300>>, <<2000, 2000, 9500, 0, 0>>}

\* The largest top_k of a call (5 for a heal, 10 for a generic ranking call).
MaxTopK == 5

RankSelectors == {"#add-btn", "a.details", "button.btn"}

InitRank ==
    /\ Unused
    /\ NoGeneration
    /\ elements \in RankElements
    /\ \E faiss_ok \in BOOLEAN, sims \in Similarities :
            backend = Backend(faiss_ok, SubSeq(sims, 1, Len(elements)))
    /\ ui_knowledge = None
    /\ ret = None

\* Lines 269-274 of views.py, lines 92-101 of main.py:
\* MatchingEngine(elements).rank(failed_selector, use_of_selector, top_k)
Rank(selector, semantic, top_k) ==
    /\ ret = None
    /\ ret' = [fn |-> "rank", selector |-> selector, semantic |-> semantic, top_k |-> top_k,
               result |-> rank(elements, backend, selector, semantic, top_k)]
    /\ UNCHANGED <<generation, service, elements, backend, ui_knowledge>>

NextRank ==
    \E selector \in RankSelectors, top_k \in 1..MaxTopK : Rank(selector, "Add to cart", top_k)

SpecRank == InitRank /\ [][NextRank]_vars

\* rank has been called.
RankCalled == ret # None /\ ret.fn = "rank"

\* C11: the ranking engine fails soft; built over an empty element list, rank
\* returns an empty candidate list and does not raise.
C11_FailsSoft ==
    (RankCalled /\ elements = <<>>) => (~ret.result.raised /\ ret.result.value = <<>>)

\* C18: rank returns a list of at most top_k entries, in non-increasing final
\* score, each final score being 0.7 * base + 0.3 * attribute score, for every
\* element list and every top_k, a top_k above the number of elements included.
C18_RankedList ==
    (RankCalled /\ elements # <<>>) =>
        /\ ~ret.result.raised
        /\ Len(ret.result.value) <= ret.top_k
        /\ \A k \in 1..(Len(ret.result.value) - 1) :
                ret.result.value[k].score >= ret.result.value[k + 1].score
        /\ \A k \in 1..Len(ret.result.value) :
                ret.result.value[k].score = (7 * ret.result.value[k].base) + (3 * ret.result.value[k].attr)

-----------------------------------------------------------------------------
(* The heal endpoints: HealAPIView and BatchHealAPIView *)

\* The secret keys of the Clients table.
Clients == {"client-1"}

\* request.auth and request.data of a heal request.  html names the page
\* source that was posted ("" when none was); skip_cache is the key of that
\* name in the posted JSON.
HealData(client_id, failed_selector, use_of_selector, page_url, intent_key, html, skip_cache) ==
    [client_id |-> client_id, failed_selector |-> failed_selector,
     use_of_selector |-> use_of_selector, page_url |-> page_url,
     intent_key |-> intent_key, html |-> html, skip_cache |-> skip_cache]

\* A posted semantic_dom, a JSON value: an object or a list of size members;
\* page names the page whose elements an object carries under "elements".
Json(is_dict, size, page) == [is_dict |-> is_dict, size |-> size, page |-> page]

\* The same request with a semantic_dom in its JSON.
WithSemanticDom(data, semantic_dom) == [semantic_dom |-> semantic_dom] @@ data

\* attrs.get('semantic_dom'): None when the key is absent or null.
SemanticDomOf(data) == Get(data, "semantic_dom", None)

\* bool(semantic_dom)
JsonTruthy(json) == IF json = None THEN FALSE ELSE json[1].size > 0

\* URLField accepts a blank value, and otherwise wants a scheme and a host.
IsUrl(s) == StartsWith(s, "https://") \/ StartsWith(s, "http://")

\* The serializer without its validate method.
ValidWithoutSource(data) ==
    /\ data.failed_selector # ""
    /\ data.use_of_selector # ""
    /\ data.page_url = "" \/ IsUrl(data.page_url)

\* HealRequestSerializer.is_valid: the declared fields, then validate
\* (lines 17-23).
is_valid(data) ==
    /\ data.failed_selector # ""
    /\ data.use_of_selector # ""
    /\ data.page_url = "" \/ IsUrl(data.page_url)
    /\ data.html # "" \/ JsonTruthy(SemanticDomOf(data))

\* HealRequestSerializer.validated_data: the declared fields, and no other
\* key of the posted JSON.
validated_data(data) ==
    [failed_selector |-> data.failed_selector, html |-> data.html,
     semantic_dom |-> SemanticDomOf(data),
     use_of_selector |-> data.use_of_selector, page_url |-> data.page_url,
     intent_key |-> data.intent_key]

\* What the extraction, the signature, the change detection and the ranking
\* make of a posted page source:
\*   parses   DOMExtractor reads it without an exception
\*   tokens   build_dom_signature_tokens of its elements
\*   level    the change level detected for the page
\*   ranks    MatchingEngine.rank returns without an exception
\*   results  the ranked results, best first
Dom(parses, tokens, level, ranks, results) ==
    [parses |-> parses, tokens |-> tokens, level |-> level, ranks |-> ranks,
     results |-> results]

NoReply == Reply("URLError", 0)

DomOf(html) ==
    CASE html = "<shop v1>" ->
            Dom(TRUE, {"t1", "t2", "t3", "t4"}, "UNKNOWN", TRUE,
                <<Candidate(Some("button.add"), 3200, NoReply)>>)
      [] html = "<shop v2>" ->
            Dom(TRUE, {"t1", "t2", "t3", "t4"}, "UNKNOWN", TRUE,
                <<Candidate(Some("button.add"), 2900, NoReply)>>)
      [] html = "<shop v3>" ->
            Dom(TRUE, {"t1", "t2", "t3", "t5"}, "MAJOR_CHANGE", TRUE,
                <<Candidate(Some("a[href='/cart']"), 9000, NoReply),
                  Candidate(Some("button.add"), 3200, NoReply)>>)
      [] html = "<empty>" ->
            Dom(TRUE, {}, "ELEMENT_REMOVED", FALSE, <<>>)
      [] OTHER ->
            Dom(FALSE, {}, "UNKNOWN", FALSE, <<>>)

\* The result dict of a heal, as the handlers build, answer and save it.
Result(message, chosen, validation_status, validation_reason, llm_used, history_assisted, history_hits, signature_tokens, ui_change_level, candidates, engine, cache_source_id) ==
    [id |-> 0, batch_id |-> 0, message |-> message, chosen |-> chosen,
     validation_status |-> validation_status, validation_reason |-> validation_reason,
     llm_used |-> llm_used, history_assisted |-> history_assisted,
     history_hits |-> history_hits, signature_tokens |-> signature_tokens,
     ui_change_level |-> ui_change_level, candidates |-> candidates,
     engine |-> engine, cache_source_id |-> cache_source_id]

HEALING_CACHE_MIN_CONFIDENCE == 3000
HEALING_CACHE_MAX_AGE_DAYS == 14

\* The filter of the cache query without the cutoff.
CacheMatchOfAnyAge(row, validated, today) ==
    /\ row.url = validated.page_url
    /\ row.use_of_selector = validated.use_of_selector
    /\ row.failed_selector = validated.failed_selector
    /\ row.success
    /\ row.validation_status = "VALID"
    /\ row.confidence >= HEALING_CACHE_MIN_CONFIDENCE
    /\ row.healed_selector # ""
    /\ validated.intent_key # "" => row.intent_key = validated.intent_key

\* The filter of the cache query (lines 169-184) on one stored row.
CacheMatch(row, validated, today) ==
    /\ row.url = validated.page_url
    /\ row.use_of_selector = validated.use_of_selector
    /\ row.failed_selector = validated.failed_selector
    /\ row.success
    /\ row.validation_status = "VALID"
    /\ row.created_on >= today - HEALING_CACHE_MAX_AGE_DAYS
    /\ row.confidence >= HEALING_CACHE_MIN_CONFIDENCE
    /\ row.healed_selector # ""
    /\ validated.intent_key # "" => row.intent_key = validated.intent_key

\* HealAPIView._resolve_cached_selector: None, or Some(result).  Rows are kept
\* in creation order, so the newest matching row is the last one.
_resolve_cached_selector(validated, rows, today, environ) ==
    LET use_cache == environ.USE_HEALING_CACHE
        skip_cache == Get(validated, "skip_cache", FALSE)
        ids == {i \in 1..Len(rows) : CacheMatch(rows[i], validated, today)}
    IN  IF ~use_cache \/ skip_cache THEN None
        ELSE IF validated.page_url = "" \/ validated.use_of_selector = ""
                \/ validated.failed_selector = "" THEN None
        ELSE IF ids = {} THEN None
        ELSE LET source_id == CHOOSE i \in ids : \A j \in ids : j <= i
                 cached == rows[source_id]
             IN  Some(Result("Resolved from history cache", Some(cached.healed_selector),
                             "VALID", "Reused previously successful validated selector",
                             FALSE, TRUE, 1, {}, cached.ui_change_level,
                             <<Candidate(Some(cached.healed_selector), cached.confidence, NoReply)>>,
                             "history_cache", source_id))

TOP_K == 5

\* HealAPIView._build_heal_response, from the call of
\* select_validated_candidate on: the result dict, or the exception that
\* leaves it, with the call that was made and what it returned.
_build_heal_response(c, selection) ==
    IF selection.raised
        THEN [raised |-> TRUE, result |-> None, call |-> c, decision |-> selection]
    ELSE [raised |-> FALSE,
          result |-> Result("Success", selection.chosen, selection.validation_status,
                            selection.validation_reason, selection.llm_used,
                            selection.history_assisted, selection.history_hits,
                            c.current_signature_tokens, c.ui_change_level, c.candidates,
                            "matching_engine_faiss", 0),
          call |-> c, decision |-> selection]

\* The keyword arguments _process_heal_request gives _build_heal_response.
HealCall(validated, dom, environ) ==
    Call(IF dom.ranks THEN Take(dom.results, TOP_K) ELSE <<>>,
         validated.failed_selector, validated.use_of_selector, validated.page_url,
         validated.intent_key, dom.tokens, dom.level, environ.USE_LLM_VALIDATION)

\* dom_data of _process_heal_request (lines 246-257): the posted semantic_dom
\* when it is a non-empty object, else what the extractor makes of html; None
\* when there is neither, or the extractor raises.
DomData(validated) ==
    IF JsonTruthy(validated.semantic_dom) /\ validated.semantic_dom[1].is_dict
        THEN Some(DomOf(validated.semantic_dom[1].page))
    ELSE IF validated.html # "" /\ DomOf(validated.html).parses
        THEN Some(DomOf(validated.html))
    ELSE None

\* _process_heal_request from the ranking on.
Processed(c, rows, snapshots, policies) ==
    _build_heal_response(c, select_validated_candidate(policies, rows, snapshots, c))

\* HealAPIView._process_heal_request
_process_heal_request(validated, rows, snapshots, policies, environ) ==
    IF DomData(validated) = None
        THEN [raised |-> TRUE, result |-> None, call |-> NoCall, decision |-> None]
    ELSE Processed(HealCall(validated, DomData(validated)[1], environ), rows, snapshots,
                   policies)

\* bool(chosen_selector)
Truthy(chosen) == chosen # None /\ chosen # Some("")

\* One SuggestedSelector row per candidate of candidates[:5].
SuggestedRows(healer_request, candidates) ==
    [i \in 1..Min(5, Len(candidates)) |->
        [healer_request |-> healer_request, selector |-> candidates[i].selector,
         score |-> candidates[i].score]]

\* The database operations that may fail under a handler.
Faults ==
    {"none", "cache lookup", "HealerRequest.create", "SuggestedSelector.create",
     "DomSnapshot.create"}

\* HealAPIView._save_heal_request with _save_dom_snapshot: the tables it
\* leaves, the id of the new row, and whether an exception left it.
_save_heal_request(validated, result, fault, rows, suggestions, snapshots, today) ==
    LET candidates == result.candidates
        row == [validation_reason |-> result.validation_reason] @@
               HealerRequest(validated.failed_selector, validated.html,
                             validated.use_of_selector, validated.page_url,
                             OrEmpty(result.chosen),
                             IF candidates # <<>> THEN candidates[1].score ELSE 0,
                             Truthy(result.chosen), validated.intent_key,
                             result.validation_status, result.ui_change_level, today)
        saved == Append(rows, row)
        snapshot == DomSnapshot(validated.page_url, validated.use_of_selector,
                                validated.intent_key, OrEmpty(result.chosen),
                                result.signature_tokens, Truthy(result.chosen),
                                result.validation_status)
        keeps == /\ validated.page_url # ""
                 /\ validated.use_of_selector # ""
                 /\ result.signature_tokens # {}
                 /\ fault # "DomSnapshot.create"
    IN  IF fault = "HealerRequest.create"
            THEN [raised |-> TRUE, id |-> 0, rows |-> rows, suggestions |-> suggestions,
                  snapshots |-> snapshots]
        ELSE IF fault = "SuggestedSelector.create" /\ candidates # <<>>
            THEN [raised |-> TRUE, id |-> 0, rows |-> saved, suggestions |-> suggestions,
                  snapshots |-> snapshots]
        ELSE [raised |-> FALSE, id |-> Len(saved), rows |-> saved,
              suggestions |-> suggestions \o SuggestedRows(Len(saved), candidates),
              snapshots |-> IF keeps THEN Append(snapshots, snapshot) ELSE snapshots]

\* Response(..., status=...): body is None when the handler built no result.
Response(status, body) == [status |-> status, body |-> body]

\* The exception left the handler: Django answers 500.
Propagated == Response(500, None)

\* safe_response (lines 111-140)
safe_response ==
    Result("Healer internal failure handled safely", None, "NO_SAFE_MATCH",
           "Healer internal error", FALSE, FALSE, 0, {}, "UNKNOWN", <<>>,
           "safe_fallback", 0)

\* What one run of HealAPIView.post leaves: the response, the tables, and
\* the call of select_validated_candidate it made.
Outcome(response, rows, suggestions, snapshots, c, selection) ==
    [response |-> response, rows |-> rows, suggestions |-> suggestions,
     snapshots |-> snapshots, call |-> c, decision |-> selection]

\* HealAPIView.post from the save on (lines 80-99, 101-141).
Save(result, c, selection, saved) ==
    IF saved.raised
        THEN Outcome(Response(200, safe_response), saved.rows, saved.suggestions,
                     saved.snapshots, c, selection)
    ELSE Outcome(Response(200, [result EXCEPT !.id = saved.id, !.batch_id = 0]),
                 saved.rows, saved.suggestions, saved.snapshots, c, selection)

\* HealAPIView.post inside the try, after the cache lookup (lines 70-99).
Heal(validated, fault, rows, suggestions, snapshots, today, cached_result, processed) ==
    IF cached_result # None
        THEN Save(cached_result[1], NoCall, None,
                  _save_heal_request(validated, cached_result[1], fault, rows, suggestions,
                                     snapshots, today))
    ELSE IF processed.raised
        THEN Outcome(Response(200, safe_response), rows, suggestions, snapshots,
                     processed.call, processed.decision)
    ELSE Save(processed.result, processed.call, processed.decision,
              _save_heal_request(validated, processed.result, fault, rows, suggestions,
                                 snapshots, today))

\* HealAPIView.post
HealAPIView_post(data, fault, rows, suggestions, snapshots, policies, today, environ) ==
    IF data.client_id \notin Clients
        THEN Outcome(Propagated, rows, suggestions, snapshots, NoCall, None)
    ELSE IF ~is_valid(data)
        THEN Outcome(Response(400, None), rows, suggestions, snapshots, NoCall, None)
    ELSE IF fault = "cache lookup"
        THEN Outcome(Response(200, safe_response), rows, suggestions, snapshots,
                     NoCall, None)
    ELSE Heal(validated_data(data), fault, rows, suggestions, snapshots, today,
              _resolve_cached_selector(validated_data(data), rows, today, environ),
              _process_heal_request(validated_data(data), rows, snapshots, policies,
                                    environ))

MaxRows == 3
DayStep == 14
MaxDay == 28

\* What a handler leaves becomes the state.
Leave(data, out, policies) ==
    /\ resp' = out.response
    /\ request' = data
    /\ db' = out.rows
    /\ suggested' = out.suggestions
    /\ snaps' = out.snapshots
    /\ call' = out.call
    /\ decision' = out.decision
    /\ policy_cache' = IF out.call = NoCall THEN policy_cache ELSE Some(policies)

\* A client posts to /heal/.
HealPost(data, fault) ==
    /\ Len(db) < MaxRows
    /\ Leave(data,
             HealAPIView_post(data, fault, db, suggested, snaps,
                              _load_intent_policies(policy_cache, config_file), now, env),
             _load_intent_policies(policy_cache, config_file))
    /\ UNCHANGED <<generation, config_file, rule, now, batches, env, pipeline>>

\* Time passes.
Tick ==
    /\ now + DayStep <= MaxDay
    /\ now' = now + DayStep
    /\ UNCHANGED <<generation, config_file, policy_cache, rule, db, snaps, call, decision, resp,
                   request, batches, suggested, env, pipeline>>

\* The process starts with empty tables.
InitTables ==
    /\ Idle
    /\ NoGeneration
    /\ config_file = "missing"
    /\ policy_cache = None
    /\ rule = None
    /\ db = <<>>
    /\ snaps = <<>>
    /\ call = NoCall
    /\ decision = None
    /\ now = 0
    /\ resp = None
    /\ request = None
    /\ batches = <<>>
    /\ suggested = <<>>

\* Requests for the fast path: one failure context, with and without
\* skip_cache and intent_key, and the same failure under another selector, on
\* another page and without page_url.
CacheRequests ==
    {HealData("client-1", "#add-old", "Add to cart", PageUrl, "", "<shop v1>", FALSE),
     HealData("client-1", "#add-old", "Add to cart", PageUrl, "", "<shop v2>", TRUE),
     HealData("client-1", "#add-old", "Add to cart", PageUrl, "add_to_cart", "<shop v1>", FALSE),
     HealData("client-1", "#buy-old", "Add to cart", PageUrl, "", "<shop v2>", FALSE),
     HealData("client-1", "#add-old", "Add to cart", "https://shop.test/list", "", "<shop v1>", FALSE),
     HealData("client-1", "#add-old", "Add to cart", "", "", "<shop v1>", FALSE)}

InitCache == InitTables /\ env \in {Env(TRUE, FALSE), Env(FALSE, FALSE)}

NextCache ==
    \/ \E data \in CacheRequests : HealPost(data, "none")
    \/ Tick

SpecCache == InitCache /\ [][NextCache]_vars

\* The last request was answered with a result, and the result was served
\* from the fast path.
Answered == resp # None /\ resp.status = 200
ServedFromCache == Answered /\ resp.body.engine = "history_cache"

\* The row saved for the last response, and the day the request was handled.
OwnRow == db[resp.body.id]
HandledOn == OwnRow.created_on

\* Stored row r is a record the fast path may reuse for the last request.
Reusable(r) ==
    /\ r.url = request.page_url
    /\ r.use_of_selector = request.use_of_selector
    /\ r.failed_selector = request.failed_selector
    /\ request.intent_key # "" => r.intent_key = request.intent_key
    /\ r.success
    /\ r.validation_status = "VALID"
    /\ r.healed_selector # ""
    /\ HandledOn - r.created_on <= 14
    /\ r.confidence >= 3000

\* The rows that were stored when the last request came in.
Earlier == 1..(resp.body.id - 1)

\* C7: a request that asks to skip the cache is answered by the full
\* pipeline, never from the fast path.
C7_SkipCacheBypasses ==
    (Answered /\ request.skip_cache) =>
        /\ resp.body.engine # "history_cache"
        /\ call # NoCall

\* C8: the fast path serves a stored selector only from a stored record of
\* the same pageUrl, intentText and failedSelector (and intentKey when the
\* request gives one), marked success and VALID, with a healed selector, not
\* older than 14 days and of confidence 0.30 or more; it is the most recent
\* such record, and no ranking or validation runs; every other request is
\* answered by the full pipeline.
C8_FastPath ==
    /\ ServedFromCache =>
        /\ resp.body.cache_source_id \in Earlier
        /\ Reusable(db[resp.body.cache_source_id])
        /\ \A j \in Earlier : Reusable(db[j]) => j <= resp.body.cache_source_id
        /\ resp.body.chosen = Some(db[resp.body.cache_source_id].healed_selector)
        /\ resp.body.validation_status = "VALID"
        /\ call = NoCall
    /\ (Answered /\ ~ServedFromCache) =>
        /\ resp.body.engine = "matching_engine_faiss"
        /\ call # NoCall
        /\ call.failed_selector = request.failed_selector

\* Two stored records may be reused, and the selector of the more recent one
\* is served.
C8_Witness ==
    /\ ServedFromCache
    /\ \E j \in Earlier : j < resp.body.cache_source_id /\ Reusable(db[j])

\* Stored row r was saved for a response of the fast path
\* (validation_reason, lines 207 and 421).
SavedForCacheHit(r) ==
    r.validation_reason = "Reused previously successful validated selector"

\* Stored row r was saved for a full ranking-and-validation run of the failure
\* context of the last request that chose the selector now served.
RunFor(r) ==
    /\ ~SavedForCacheHit(r)
    /\ r.url = request.page_url
    /\ r.use_of_selector = request.use_of_selector
    /\ r.failed_selector = request.failed_selector
    /\ r.validation_status = "VALID"
    /\ Some(r.healed_selector) = resp.body.chosen

\* C24: every selector served from the fast path was produced by a full
\* ranking-and-validation run for the same pageUrl, intentText and
\* failedSelector no more than 14 days earlier; records saved for cache-hit
\* responses do not extend the lifetime of a cached selector.
C24_CacheLifetime ==
    ServedFromCache =>
        \E j \in Earlier : RunFor(db[j]) /\ HandledOn - db[j].created_on <= 14

\* request.auth and request.data of a batch heal request.
BatchData(client_id, selectors) == [client_id |-> client_id, selectors |-> selectors]

\* BatchHealRequestSerializer.is_valid
batch_is_valid(data) ==
    /\ data.selectors # <<>>
    /\ \A i \in 1..Len(data.selectors) : is_valid(data.selectors[i])

\* The entry of a selector whose processing or saving raised (lines 712-719).
FailedItem(batch_id) ==
    [id |-> 0, batch_id |-> batch_id, message |-> "Failed", chosen |-> None,
     candidates |-> <<>>]

\* The loop forgets the entry of a failed selector.
ResultsWithoutFailed(results, batch_id) == results

\* results.append of the failed entry (line 712)
ResultsWithFailed(results, batch_id) == Append(results, FailedItem(batch_id))

\* What the loop of BatchHealAPIView.post has built so far.
BatchAcc(rows, suggestions, snapshots, results, success_count, fail_count, c, selection) ==
    [rows |-> rows, suggestions |-> suggestions, snapshots |-> snapshots,
     results |-> results, success_count |-> success_count, fail_count |-> fail_count,
     call |-> c, decision |-> selection]

\* One selector of the batch after its save (lines 689-719).
BatchItemSaved(acc, batch_id, processed, saved) ==
    IF saved.raised
        THEN BatchAcc(saved.rows, saved.suggestions, saved.snapshots,
                      ResultsWithFailed(acc.results, batch_id),
                      acc.success_count, acc.fail_count + 1,
                      processed.call, processed.decision)
    ELSE BatchAcc(saved.rows, saved.suggestions, saved.snapshots,
                  Append(acc.results,
                         [processed.result EXCEPT !.id = saved.id, !.batch_id = batch_id]),
                  acc.success_count + 1, acc.fail_count,
                  processed.call, processed.decision)

\* One selector of the batch (lines 677-719).
BatchItem(acc, batch_id, validated, fault, today, processed) ==
    IF processed.raised
        THEN BatchAcc(acc.rows, acc.suggestions, acc.snapshots,
                      ResultsWithFailed(acc.results, batch_id),
                      acc.success_count, acc.fail_count + 1,
                      IF processed.call = NoCall THEN acc.call ELSE processed.call,
                      IF processed.call = NoCall THEN acc.decision ELSE processed.decision)
    ELSE BatchItemSaved(acc, batch_id, processed,
                        _save_heal_request(validated, processed.result, fault, acc.rows,
                                           acc.suggestions, acc.snapshots, today))

\* for idx, selector_data in enumerate(selectors_to_heal), from selector i on
RECURSIVE BatchLoop(_, _, _, _, _, _, _, _)
BatchLoop(selectors, faults, i, batch_id, policies, today, environ, acc) ==
    IF i > Len(selectors) THEN acc
    ELSE BatchLoop(selectors, faults, i + 1, batch_id, policies, today, environ,
            BatchItem(acc, batch_id, validated_data(selectors[i]), faults[i], today,
                      _process_heal_request(validated_data(selectors[i]), acc.rows,
                                            acc.snapshots, policies, environ)))

\* The batch summary row, and the response of the batch.
HealerRequestBatch(total_requests, success, failure) ==
    [total_requests |-> total_requests, success |-> success, failure |-> failure]

BatchResponse(batch_id, n, acc) ==
    Response(200, [id |-> batch_id, results |-> acc.results, total_processed |-> n,
                   total_succeeded |-> acc.success_count,
                   total_failed |-> acc.fail_count])

\* What one run of BatchHealAPIView.post leaves.
BatchOutcome(response, batch_rows, acc) ==
    [response |-> response, batches |-> batch_rows, rows |-> acc.rows,
     suggestions |-> acc.suggestions, snapshots |-> acc.snapshots,
     call |-> acc.call, decision |-> acc.decision]

\* BatchHealAPIView.post from the loop on (lines 677-746).
BatchDone(data, batch_rows, batch_id, acc) ==
    BatchOutcome(BatchResponse(batch_id, Len(data.selectors), acc),
                 Append(batch_rows,
                        HealerRequestBatch(Len(data.selectors), acc.success_count,
                                           acc.fail_count)),
                 acc)

\* BatchHealAPIView.post
BatchHealAPIView_post(data, faults, batch_rows, rows, suggestions, snapshots, policies, today, environ) ==
    IF data.client_id \notin Clients
        THEN BatchOutcome(Propagated, batch_rows,
                          BatchAcc(rows, suggestions, snapshots, <<>>, 0, 0, NoCall, None))
    ELSE IF ~batch_is_valid(data)
        THEN BatchOutcome(Response(400, None), batch_rows,
                          BatchAcc(rows, suggestions, snapshots, <<>>, 0, 0, NoCall, None))
    ELSE BatchDone(data, batch_rows, Len(batch_rows) + 1,
            BatchLoop(data.selectors, faults, 1, Len(batch_rows) + 1, policies, today,
                      environ,
                      BatchAcc(rows, suggestions, snapshots, <<>>, 0, 0, NoCall, None)))

MaxBatch == 2
MaxBatches == 2

\* What a batch handler leaves becomes the state.
LeaveBatch(data, faults, out, policies) ==
    /\ resp' = out.response
    /\ request' = [data EXCEPT !.selectors =
                        [i \in 1..Len(data.selectors) |->
                            [data |-> data.selectors[i], fault |-> faults[i]]]]
    /\ batches' = out.batches
    /\ db' = out.rows
    /\ suggested' = out.suggestions
    /\ snaps' = out.snapshots
    /\ call' = out.call
    /\ decision' = out.decision
    /\ policy_cache' = IF out.call = NoCall THEN policy_cache ELSE Some(policies)

\* A client posts to /heal/batch/; faults[i] is the database operation that
\* fails while selector i is handled.
BatchPost(data, faults) ==
    /\ Len(batches) < MaxBatches
    /\ Len(data.selectors) <= MaxBatch
    /\ Len(db) + Len(data.selectors) <= MaxRows
    /\ LeaveBatch(data, faults,
                  BatchHealAPIView_post(data, faults, batches, db, suggested, snaps,
                      _load_intent_policies(policy_cache, config_file), now, env),
                  _load_intent_policies(policy_cache, config_file))
    /\ UNCHANGED <<generation, config_file, rule, now, env, pipeline>>

-----------------------------------------------------------------------------
(* Single heals that meet failures: an unknown client, no page source, a   *)
(* page source the extractor cannot read, a ranking that raises, and       *)
(* database operations that fail.                                          *)

FailRequests ==
    {HealData("client-1", "#add-old", "Add to cart", PageUrl, "", "<shop v1>", FALSE),
     HealData("client-1", "#add-old", "Add to cart", PageUrl, "", "<shop v3>", FALSE),
     HealData("client-1", "#add-old", "Add to cart", PageUrl, "", "<empty>", FALSE),
     HealData("client-1", "#add-old", "Add to cart", PageUrl, "", "<garbled", FALSE),
     HealData("client-1", "#add-old", "Add to cart", PageUrl, "", "", FALSE),
     HealData("client-9", "#add-old", "Add to cart", PageUrl, "", "<shop v1>", FALSE)}

InitFail == InitTables /\ env = DefaultEnv

NextFail == \E data \in FailRequests, fault \in Faults : HealPost(data, fault)

SpecFail == InitFail /\ [][NextFail]_vars

\* The NO_SAFE_MATCH-shaped answer.
SafeShaped(body) ==
    /\ body.chosen = None
    /\ body.validation_status = "NO_SAFE_MATCH"
    /\ body.candidates = <<>>

\* C9: whichever step of HealAPIView.post raises, the exception is caught and
\* the request is answered with a NO_SAFE_MATCH-shaped response: no request
\* ends in a propagated exception, and a request that is answered without a
\* saved result is answered in that shape or rejected as invalid input.
C9_ExceptionsAnsweredSafely ==
    resp # None =>
        /\ resp.status # 500
        /\ (resp.status = 200 /\ resp.body.id = 0) => SafeShaped(resp.body)

\* The last response is the internal-failure fallback.
Fallback(response) ==
    IF response = None THEN FALSE
    ELSE IF response.status # 200 THEN FALSE
    ELSE response.body.id = 0 /\ response.body.validation_status = "NO_SAFE_MATCH"

\* The handler added a row that says the healing succeeded.
SavedAsHealed(before, after) ==
    \E i \in (Len(before) + 1)..Len(after) :
        after[i].success /\ after[i].validation_status = "VALID"

\* C26: a single heal request answered with the internal-failure fallback
\* (NO_SAFE_MATCH, id 0) has left no HealerRequest row with success = true and
\* validation_status VALID, at whichever step of persistence the failure
\* occurred.
C26_FallbackLeavesNoHealedRow == [][Fallback(resp') => ~SavedAsHealed(db, db')]_vars

\* The stored candidates of stored row i whose selector is the healed one.
ChosenCandidates(i) ==
    {k \in 1..Len(suggested) :
        /\ suggested[k].healer_request = i
        /\ suggested[k].selector = Some(db[i].healed_selector)}

\* C29: for every persisted HealerRequest with validation_status VALID, the
\* stored confidence is the score of the candidate whose selector was chosen
\* and stored as healed_selector, also when the top-ranked candidate was
\* rejected by the policy filter and a lower-ranked one was chosen.
C29_ConfidenceOfChosen ==
    \A i \in 1..Len(db) :
        db[i].validation_status = "VALID" =>
            \A k \in ChosenCandidates(i) : suggested[k].score = db[i].confidence

-----------------------------------------------------------------------------
(* Batch heals whose selectors meet failures.                              *)

\* A selector of a batch, and the database operation that fails under it.
BatchEntry(failed_selector, html, fault) ==
    [data |-> HealData("client-1", failed_selector, "Add to cart", PageUrl, "", html, FALSE),
     fault |-> fault]

BatchEntries ==
    {BatchEntry("#add-old", "<shop v1>", "none"),
     BatchEntry("#menu-old", "<garbled", "none"),
     BatchEntry("#buy-old", "<shop v2>", "HealerRequest.create"),
     BatchEntry("#pay-old", "<shop v3>", "SuggestedSelector.create")}

BatchInputs == UNION {[1..n -> BatchEntries] : n \in 0..MaxBatch}

DataOf(entries) == [i \in 1..Len(entries) |-> entries[i].data]
FaultsOf(entries) == [i \in 1..Len(entries) |-> entries[i].fault]

InitBatch == InitTables /\ env = DefaultEnv

NextBatch ==
    \/ \E entries \in BatchInputs :
            BatchPost(BatchData("client-1", DataOf(entries)), FaultsOf(entries))
    \/ \E entry \in BatchEntries :
            BatchPost(BatchData("client-9", <<entry.data>>), <<entry.fault>>)

SpecBatch == InitBatch /\ [][NextBatch]_vars

\* The last request was a batch, and it was answered with results.
BatchAnswered == resp # None /\ resp.status = 200

\* Selector i of the last batch met an exception: its page source could not
\* be read, or a database operation failed while it was saved.
Met(i) ==
    \/ request.selectors[i].fault # "none"
    \/ ~DomOf(request.selectors[i].data.html).parses

\* C10: an exception under one selector of a batch does not abort the batch:
\* every selector has exactly one entry in results, in input order, a failing
\* one the failed entry with chosen null and no candidates, the others the
\* saved result of their own heal, and total_succeeded + total_failed =
\* total_processed = the number of selectors.
C10_BatchIsolatesFailures ==
    BatchAnswered =>
        LET n == Len(request.selectors)
            body == resp.body
        IN  /\ Len(body.results) = n
            /\ body.total_processed = n
            /\ body.total_succeeded + body.total_failed = n
            /\ body.total_failed = Cardinality({i \in 1..n : Met(i)})
            /\ \A i \in 1..n :
                    IF Met(i)
                        THEN /\ body.results[i].id = 0
                             /\ body.results[i].chosen = None
                             /\ body.results[i].candidates = <<>>
                    ELSE /\ body.results[i].id \in 1..Len(db)
                         /\ db[body.results[i].id].failed_selector =
                                request.selectors[i].data.failed_selector
                         /\ body.results[i].batch_id = body.id

\* The first selector of a batch failed, and the second one was healed.
C10_Witness ==
    /\ BatchAnswered
    /\ Len(request.selectors) >= 2
    /\ Met(1) /\ ~Met(2)
    /\ resp.body.results[1].id = 0
    /\ resp.body.results[2].id > 0
    /\ resp.body.results[2].chosen # None

-----------------------------------------------------------------------------
(* Single heals over what a request may carry as its page source: html,    *)
(* semantic_dom, both or neither.                                          *)

\* The semantic_dom values of the requests: none, an empty object, an object
\* with the elements of a page, and a list.
SemanticDoms ==
    {None, Some(Json(TRUE, 0, "")), Some(Json(TRUE, 1, "<shop v3>")),
     Some(Json(FALSE, 1, ""))}

InputRequests ==
    {WithSemanticDom(HealData("client-1", "#add-old", "Add to cart", PageUrl, "", html, FALSE),
                     semantic_dom) :
        html \in {"", "<shop v1>"}, semantic_dom \in SemanticDoms}

InitInput == InitTables /\ env \in {Env(TRUE, FALSE), Env(FALSE, FALSE)}

NextInput == \E data \in InputRequests : HealPost(data, "none")

SpecInput == InitInput /\ [][NextInput]_vars

\* What the last request supplied.
HtmlSupplied == request.html # ""
SemanticDomSupplied == SemanticDomOf(request) # None
SemanticDomUsable == JsonTruthy(SemanticDomOf(request))

\* The last request passed the serializer.
Accepted == resp # None /\ resp.status # 400

\* The tables and the engine are as the request found them.
Untouched ==
    /\ db' = db /\ suggested' = suggested /\ snaps' = snaps
    /\ call' = NoCall /\ decision' = None

\* C21 as stated: an accepted request supplied exactly one of html and
\* semantic_dom.
C21_ExactlyOne == Accepted => (HtmlSupplied # SemanticDomSupplied)

\* What C21 says of the request a step has handled: accepted, it supplied a
\* non-empty html or a non-empty semantic_dom, and when the semantic_dom is an
\* object the page is read from it; with neither, it is rejected and the
\* tables and the engine are left alone.
SourceRule ==
    /\ Accepted' => (HtmlSupplied' \/ SemanticDomUsable')
    /\ (Accepted' /\ call' # NoCall /\ SemanticDomUsable' /\ SemanticDomOf(request')[1].is_dict) =>
            call'.current_signature_tokens = DomOf(SemanticDomOf(request')[1].page).tokens
    /\ (request'.html = "" /\ ~JsonTruthy(SemanticDomOf(request'))) =>
            (resp'.status = 400 /\ Untouched)

\* C21: a heal input is accepted only when at least one of html and
\* semantic_dom is supplied and not empty; an input with neither is rejected
\* as an input error (400) before any cache lookup, ranking, validation or
\* persistence takes place.
C21_AtLeastOne == [][SourceRule]_vars

\* A request with both html and an object semantic_dom was accepted, healed
\* and saved.
C21_Witness ==
    /\ Accepted /\ HtmlSupplied /\ SemanticDomUsable
    /\ resp.status = 200 /\ resp.body.id > 0
    /\ call # NoCall

-----------------------------------------------------------------------------
(* Single heals of one failure context under different intent keys.        *)

IntentRequests ==
    {HealData("client-1", "#add-old", "Add to cart", PageUrl, intent_key, html, FALSE) :
        intent_key \in {"", "add_to_cart", "view_details"},
        html \in {"<shop v1>", "<shop v3>"}}

InitIntent == InitTables /\ env = DefaultEnv

NextIntent == \E data \in IntentRequests : HealPost(data, "none")

SpecIntent == InitIntent /\ [][NextIntent]_vars

\* The policy verdict on the selector of the last response, under the intent
\* resolved from the intent_key and the use_of_selector of the last request.
OwnVerdict(policies) ==
    _rule_validate_candidate(policies,
        _resolve_intent(policies, request.intent_key, request.use_of_selector),
        resp.body.chosen)

\* C25: the chosen selector of every single-heal response with
\* validation_status VALID, computed by the pipeline or served from the fast
\* path, passes the intent policy of the intent resolved from that request's
\* own intent_key and use_of_selector, whatever requests came before.
C25_ValidPassesOwnPolicy ==
    (Answered /\ resp.body.validation_status = "VALID") =>
        OwnVerdict(_load_intent_policies(policy_cache, config_file)).ok

-----------------------------------------------------------------------------
(* Single and batch heals together, and the history they leave.            *)

HealsRequests ==
    {HealData("client-1", "#add-old", "Add to cart", PageUrl, "", html, FALSE) :
        html \in {"<shop v1>", "<empty>"}}

HealsEntries ==
    {BatchEntry("#add-old", "<shop v3>", "none"),
     BatchEntry("#add-old", "<empty>", "none")}

HealsBatches == UNION {[1..n -> HealsEntries] : n \in 1..MaxBatch}

InitHeals == InitTables /\ env = DefaultEnv

NextHeals ==
    \/ \E data \in HealsRequests, fault \in {"none", "SuggestedSelector.create"} :
            HealPost(data, fault)
    \/ \E entries \in HealsBatches :
            BatchPost(BatchData("client-1", DataOf(entries)), FaultsOf(entries))

SpecHeals == InitHeals /\ [][NextHeals]_vars

\* Candidate selectors the ranking may hand to _history_boost: the last one
\* is the tag of an element whose tag is a blank.
BoostCandidates == {"button.add", "a[href='/cart']", "BUTTON.ADD ", " "}

\* The history boost of selector sel on the page of the requests.
BoostOf(sel) == _history_boost(db, PageUrl, "Add to cart", Some(sel))

\* No stored failure was counted for sel: the boost is that of its successes.
NoFailureCounted(sel) == BoostOf(sel).boost = Min(20, BoostOf(sel).hits * 5)

\* Every stored row of a failed heal has an empty healed_selector.
FailuresCarryNoSelector ==
    \A i \in 1..Len(db) : ~db[i].success => db[i].healed_selector = ""

\* C28 as stated: each stored HealerRequest with success = false has an empty
\* healed_selector, and no stored failure is counted for a non-empty candidate
\* selector, whose history boost is never negative.
C28_NonEmptySelectors ==
    /\ FailuresCarryNoSelector
    /\ \A sel \in BoostCandidates :
            sel # "" => (NoFailureCounted(sel) /\ BoostOf(sel).boost >= 0)

\* C28: in every state reachable through single and batch heal requests, each
\* stored HealerRequest with success = false has an empty healed_selector;
\* hence no stored failure is counted by _history_boost for a candidate
\* selector that is not blank (not empty after strip()), and the history boost
\* of such a selector is never negative.
C28_NonBlankSelectors ==
    /\ FailuresCarryNoSelector
    /\ \A sel \in BoostCandidates :
            Strip(sel) # "" => (NoFailureCounted(sel) /\ BoostOf(sel).boost >= 0)

\* A failed heal and a successful one of the page are stored, and the
\* selector of the successful one has a positive boost.
C28_Witness ==
    /\ \E i \in 1..Len(db) : ~db[i].success /\ db[i].url = PageUrl
    /\ \E i \in 1..Len(db) : db[i].success /\ db[i].healed_selector = "button.add"
    /\ BoostOf("button.add").boost > 0
    /\ batches # <<>>

-----------------------------------------------------------------------------
(* test_generation: generation jobs and the files they write *)

EndsWith(s, p) == Len(s) >= Len(p) /\ SubSeq(s, Len(s) - Len(p) + 1, Len(s)) = p

\* s.replace("\\", "/")
RECURSIVE ReplaceBackslash(_)
ReplaceBackslash(s) ==
    IF s = "" THEN ""
    ELSE (IF SubSeq(s, 1, 1) = "\\" THEN "/" ELSE SubSeq(s, 1, 1)) \o ReplaceBackslash(SubSeq(s, 2, Len(s)))

\* s.split("/"), seg being the segment read so far
RECURSIVE SplitOnSlash(_, _)
SplitOnSlash(s, seg) ==
    IF s = "" THEN <<seg>>
    ELSE IF SubSeq(s, 1, 1) = "/" THEN <<seg>> \o SplitOnSlash(SubSeq(s, 2, Len(s)), "")
    ELSE SplitOnSlash(SubSeq(s, 2, Len(s)), seg \o SubSeq(s, 1, 1))

\* Path(rp).parts on a POSIX host: the root if the path has one, then the
\* segments, the empty ones and "." dropped.
NamedSegment(seg) == seg \notin {"", "."}
PathParts(rp) ==
    (IF StartsWith(rp, "/") THEN <<"/">> ELSE <<>>) \o SelectSeq(SplitOnSlash(rp, ""), NamedSegment)

\* Lines 1920 and 2736: the path as it is validated and written.
NormalPath(relative_path) == Strip(ReplaceBackslash(relative_path))

allowed_prefixes == <<"tests/generated/", "tests/pages/generated/">>

\* _validate_relative_path without the rule on the allowed directories
ValidateAnywhere(relative_path) ==
    LET rp == NormalPath(relative_path)
    IN  IF rp = "" THEN <<"Missing relative_path">>
        ELSE (IF StartsWith(rp, "/") \/ ".." \in SetOf(PathParts(rp))
                  THEN <<"Path traversal or absolute path is not allowed">> ELSE <<>>)
             \o (IF ~(EndsWith(rp, ".ts") \/ EndsWith(rp, ".spec.ts"))
                  THEN <<"Generated files must be TypeScript (.ts / .spec.ts)">> ELSE <<>>)

\* generation_service._validate_relative_path: the list of errors
_validate_relative_path(relative_path) ==
    LET rp == NormalPath(relative_path)
    IN  IF rp = "" THEN <<"Missing relative_path">>
        ELSE (IF StartsWith(rp, "/") \/ ".." \in SetOf(PathParts(rp))
                  THEN <<"Path traversal or absolute path is not allowed">> ELSE <<>>)
             \o (IF ~\E i \in 1..Len(allowed_prefixes) : StartsWith(rp, allowed_prefixes[i])
                  THEN <<"Path must be under tests/generated or tests/pages/generated">> ELSE <<>>)
             \o (IF ~(EndsWith(rp, ".ts") \/ EndsWith(rp, ".spec.ts"))
                  THEN <<"Generated files must be TypeScript (.ts / .spec.ts)">> ELSE <<>>)

\* _repo_root(), resolved
RepoRoot == "/repo"

\* repo_root / rp
Joined(rp) == Join(<<RepoRoot>> \o PathParts(rp), "/")

\* Path.resolve(): a symlinked directory on the way is replaced by what it
\* points to.
Through(path, link) == link.points_to \o SubSeq(path, Len(link.directory) + 1, Len(path))
Resolve(path, links) ==
    IF \E link \in links : StartsWith(path, link.directory \o "/")
        THEN Through(path, CHOOSE link \in links : StartsWith(path, link.directory \o "/"))
    ELSE path

\* target.relative_to(root) does not raise
IsUnder(path, root) == path = root \/ StartsWith(path, root \o "/")

\* _sha256(content)
_sha256(content) == <<"sha256", content>>

GeneratedArtifact(artifact_type, relative_path, content, validation_status) ==
    [artifact_type |-> artifact_type, relative_path |-> relative_path,
     content_draft |-> content, content_final |-> content,
     checksum |-> _sha256(content), validation_status |-> validation_status]

GenerationJob(job_status, artifacts) == [job_status |-> job_status, artifacts |-> artifacts]

\* The working tree: the symlinked directories and the files by resolved path.
Tree(links, files) == [links |-> links, files |-> files]

\* _validate_artifact_content: the errors (the warnings change no status).
\* The patterns are searched in their plain spelling, without the blanks a
\* pattern allows before a parenthesis.
forbidden_patterns ==
    <<[pattern |-> "waitForTimeout(", message |-> "Forbidden waitForTimeout usage"],
      [pattern |-> "setTimeout(", message |-> "Forbidden setTimeout usage"],
      [pattern |-> "test.only(", message |-> "Forbidden test.only usage"],
      [pattern |-> "process.exit(", message |-> "Forbidden process.exit usage"]>>
required ==
    <<[pattern |-> "import { test, expect } from '../baseTest';", message |-> "Spec must import { test, expect } from ../baseTest"],
      [pattern |-> "selfHealingClick", message |-> "Spec must use/import selfHealingClick"],
      [pattern |-> "intent_key", message |-> "Spec must include intent_key in healing options"],
      [pattern |-> "expect(", message |-> "Spec must include assertion"]>>
incompatible_framework_patterns ==
    <<[pattern |-> "suite(", message |-> "Spec must use Playwright test.describe(), not suite()"],
      [pattern |-> "suiteSetup(", message |-> "Spec must use Playwright hooks, not suiteSetup()"],
      [pattern |-> "test.page", message |-> "Spec must use injected { page }, not test.page"]>>

Found(text, patterns) == [p \in 1..Len(patterns) |-> Contains(text, patterns[p].pattern)]
RECURSIVE Messages(_, _, _)
Messages(patterns, found, wanted) ==
    IF patterns = <<>> THEN <<>>
    ELSE (IF Head(found) = wanted THEN <<>> ELSE <<Head(patterns).message>>)
             \o Messages(Tail(patterns), Tail(found), wanted)

PageObjectErrors(text) ==
    (IF ~Contains(text, "class ") THEN <<"Page object file must define a class">> ELSE <<>>)
    \o (IF ~Contains(text, "constructor(") THEN <<"Page object class must define constructor">> ELSE <<>>)
    \o (IF Contains(text, "selfHealingClick(") /\ ~Contains(text, "from '../utils/selfHealing'")
               /\ ~Contains(text, "from \"../utils/selfHealing\"")
            THEN <<"Page object uses selfHealingClick but does not import it">> ELSE <<>>)

_validate_artifact_content(artifact_type, content) ==
    Messages(forbidden_patterns, Found(content, forbidden_patterns), FALSE)
    \o (IF artifact_type = "SPEC"
            THEN Messages(required, Found(content, required), TRUE)
                 \o Messages(incompatible_framework_patterns, Found(content, incompatible_framework_patterns), FALSE)
        ELSE <<>>)
    \o (IF artifact_type = "PAGE_OBJECT" THEN PageObjectErrors(content) ELSE <<>>)

\* _validate_artifacts on one generated artifact: the row it becomes
Validated(artifact_type, relative_path, content) ==
    GeneratedArtifact(artifact_type, relative_path, content,
        IF _validate_relative_path(relative_path) \o _validate_artifact_content(artifact_type, content) = <<>>
            THEN "VALID" ELSE "INVALID")

\* job.artifacts.filter(validation_status=VALID).order_by("relative_path"), as
\* the positions of the rows
RECURSIVE OrderedByPath(_, _)
OrderedByPath(artifacts, positions) ==
    IF positions = {} THEN <<>>
    ELSE LET first == CHOOSE k \in positions : \A m \in positions :
                          k = m \/ StrLess(artifacts[k].relative_path, artifacts[m].relative_path)
         IN  <<first>> \o OrderedByPath(artifacts, positions \ {first})
ValidArtifacts(artifacts) == {k \in 1..Len(artifacts) : artifacts[k].validation_status = "VALID"}

\* One turn of the loop of materialize_job (lines 2735-2766), for the artifact
\* at position k.
FirstNonEmpty(content_final, content_draft) == IF content_final # "" THEN content_final ELSE content_draft
Written(acc, k, rp, target, content) ==
    [acc EXCEPT !.files = (target :> content) @@ acc.files,
                !.artifacts[k].checksum = _sha256(content),
                !.artifacts[k].content_final = content,
                !.written_files = @ \o <<rp>>]
MaterializeArtifact(acc, k, rp, target, links, allow_overwrite) ==
    IF _validate_relative_path(rp) # <<>>
        THEN [acc EXCEPT !.errors = @ \o <<rp \o ": " \o Join(_validate_relative_path(rp), "; ")>>]
    ELSE IF ~IsUnder(target, RepoRoot)
        THEN [acc EXCEPT !.errors = @ \o <<rp \o ": resolved outside repository root">>]
    ELSE IF target \in DOMAIN acc.files /\ ~allow_overwrite
        THEN [acc EXCEPT !.conflicts = @ \o <<rp>>]
    ELSE Written(acc, k, rp, target, FirstNonEmpty(acc.artifacts[k].content_final, acc.artifacts[k].content_draft))

RECURSIVE MaterializeLoop(_, _, _, _)
MaterializeLoop(acc, order, links, allow_overwrite) ==
    IF order = <<>> THEN acc
    ELSE MaterializeLoop(
            MaterializeArtifact(acc, Head(order), NormalPath(acc.artifacts[Head(order)].relative_path),
                Resolve(Joined(NormalPath(acc.artifacts[Head(order)].relative_path)), links), links, allow_overwrite),
            Tail(order), links, allow_overwrite)

\* MaterializationResult.ok
Ok(result) == result.conflicts = <<>> /\ result.errors = <<>>

\* materialize_job(job, allow_overwrite): the rows, the files and the result
materialize_job(artifacts, working_tree, allow_overwrite) ==
    MaterializeLoop(
        [artifacts |-> artifacts, files |-> working_tree.files, written_files |-> <<>>, conflicts |-> <<>>, errors |-> <<>>],
        OrderedByPath(artifacts, ValidArtifacts(artifacts)), working_tree.links, allow_overwrite)

\* What the templates of _build_template_artifacts give for the feature "cart".
page_path == "tests/pages/generated/CartPage.ts"
spec_path == "tests/generated/cart.spec.ts"
PageText == "export class CartPage { constructor(page) {} }"
SpecText == "import { test, expect } from '../baseTest'; selfHealingClick(page, { intent_key }); expect(page)"
FocusedText == "test.only('cart')"

\* The paths an artifact row may hold: the two of the templates, and what the
\* change form of GeneratedArtifactAdmin accepts for the field.
PathPool ==
    {spec_path, page_path, "/tmp/hack.ts", "tests\\generated\\..\\..\\manage.ts",
     " tests/generated/cart.spec.ts", "tests/generated/notes.md", "src/app.ts"}
TypeOfRow(relative_path) == IF relative_path = page_path THEN "PAGE_OBJECT" ELSE "SPEC"
TextOfRow(relative_path) == IF relative_path = page_path THEN PageText ELSE SpecText

MaxArtifacts == 1

\* The artifact rows of a job: some paths of the pool, each row with the text
\* of its template and marked as _validate_artifacts marks it.
RowsOver(paths) == [k \in 1..Len(paths) |-> Validated(TypeOfRow(paths[k]), paths[k], TextOfRow(paths[k]))]
SortedPaths(n) == {p \in [1..n -> PathPool] : \A i, j \in 1..n : i < j => StrLess(p[i], p[j])}
ArtifactRows == UNION {{RowsOver(paths) : paths \in SortedPaths(n)} : n \in 1..MaxArtifacts}

\* The working trees before anything is generated: tests/generated a plain
\* directory, or a link to another directory of the repository, or a link to
\* a directory outside it.
LinkPool ==
    {[directory |-> "/repo/tests/generated", points_to |-> "/repo/src/legacy"],
     [directory |-> "/repo/tests/generated", points_to |-> "/srv/shared"]}
Trees == {Tree(links, <<>>) : links \in {{}} \cup {{link} : link \in LinkPool}}

\* A job whose draft is ready for review, over a working tree.
InitGeneration ==
    /\ Unused
    /\ Idle
    /\ job \in {GenerationJob("DRAFT_READY", artifacts) : artifacts \in ArtifactRows}
    /\ tree \in Trees

\* views.py, GenerationJobApproveAPIView.post: 400 unless the draft is ready
\* or approved already.
Approve ==
    /\ job' = IF job.job_status \notin {"DRAFT_READY", "APPROVED"} THEN job
              ELSE [job EXCEPT !.job_status = "APPROVED"]
    /\ UNCHANGED <<tree, service, pipeline>>

\* views.py, GenerationJobMaterializeAPIView.post: 400 unless the job is
\* approved or materialized already; the job is MATERIALIZED if the result is ok.
MaterializedTo(result) ==
    /\ job' = GenerationJob(IF Ok(result) THEN "MATERIALIZED" ELSE job.job_status, result.artifacts)
    /\ tree' = [tree EXCEPT !.files = result.files]
Materialize(allow_overwrite) ==
    /\ IF job.job_status \notin {"APPROVED", "MATERIALIZED"} THEN UNCHANGED <<job, tree>>
       ELSE MaterializedTo(materialize_job(job.artifacts, tree, allow_overwrite))
    /\ UNCHANGED <<service, pipeline>>

\* views.py, GenerationJobRejectAPIView.post: 400 for a materialized job.
Reject ==
    /\ job' = IF job.job_status = "MATERIALIZED" THEN job ELSE [job EXCEPT !.job_status = "REJECTED"]
    /\ UNCHANGED <<tree, service, pipeline>>

\* views.py, GenerationJobArtifactUpdateAPIView.post: 400 for a materialized
\* job, 404 if the job has no artifact of that path.
Found404(relative_path) == ~\E k \in 1..Len(job.artifacts) : job.artifacts[k].relative_path = relative_path
Edited(artifact, content, update_draft) ==
    [artifact EXCEPT !.content_final = content,
                     !.content_draft = IF update_draft THEN content ELSE @,
                     !.validation_status =
                         IF _validate_artifact_content(artifact.artifact_type, content) = <<>> THEN "VALID" ELSE "INVALID",
                     !.checksum = _sha256(content)]
ArtifactUpdate(relative_path, content, update_draft) ==
    /\ job' = IF job.job_status = "MATERIALIZED" \/ Found404(Strip(relative_path)) THEN job
              ELSE [job EXCEPT !.artifacts =
                        [k \in 1..Len(job.artifacts) |->
                            IF job.artifacts[k].relative_path = Strip(relative_path)
                                THEN Edited(job.artifacts[k], content, update_draft)
                            ELSE job.artifacts[k]]]
    /\ UNCHANGED <<tree, service, pipeline>>

\* generation_service.regenerate_job_artifacts_with_llm, called by
\* GeneratedArtifactAdmin.llm_generate for the job of an artifact:
\* missing_selectors is what the runtime check of the selectors found for the
\* spec, strict_gate is _require_all_artifacts_valid().
Unmatched(artifact, missing_selectors) ==
    IF missing_selectors THEN [artifact EXCEPT !.validation_status = "INVALID"] ELSE artifact
ValidatedPage == Validated("PAGE_OBJECT", page_path, PageText)
ValidatedSpec == Validated("SPEC", spec_path, SpecText)
Regenerated(missing_selectors) == <<ValidatedPage, Unmatched(ValidatedSpec, missing_selectors)>>
StatusAfter(validated_artifacts, strict_gate) ==
    IF strict_gate /\ ValidArtifacts(validated_artifacts) # 1..Len(validated_artifacts) THEN "FAILED"
    ELSE IF ValidArtifacts(validated_artifacts) # {} THEN "DRAFT_READY"
    ELSE "FAILED"
Regeneration(validated_artifacts, strict_gate) ==
    GenerationJob(StatusAfter(validated_artifacts, strict_gate), validated_artifacts)
regenerate_job_artifacts_with_llm(missing_selectors, strict_gate) ==
    Regeneration(Regenerated(missing_selectors), strict_gate)
LlmGenerate(missing_selectors, strict_gate) ==
    /\ job.artifacts # <<>>
    /\ job' = regenerate_job_artifacts_with_llm(missing_selectors, strict_gate)
    /\ UNCHANGED <<tree, service, pipeline>>

\* What a request to edit an artifact may carry: the path of a row of the
\* job or a path of no row, and a text.
RequestedPaths == {job.artifacts[k].relative_path : k \in 1..Len(job.artifacts)} \cup {"tests/generated/absent.spec.ts"}
EditPool == {SpecText, FocusedText}

NextGeneration ==
    \/ Approve
    \/ \E allow_overwrite \in BOOLEAN : Materialize(allow_overwrite)
    \/ Reject
    \/ \E relative_path \in RequestedPaths, content \in EditPool, update_draft \in BOOLEAN :
            ArtifactUpdate(relative_path, content, update_draft)
    \/ \E missing_selectors, strict_gate \in BOOLEAN : LlmGenerate(missing_selectors, strict_gate)

SpecGeneration == InitGeneration /\ [][NextGeneration]_vars

\* What a path must be for a file to be generated there: not absolute, no
\* ".." segment, under one of the two directories, a TypeScript file.
UnderAllowedDirectory(rp) == StartsWith(rp, "tests/generated/") \/ StartsWith(rp, "tests/pages/generated/")
Admissible(rp) ==
    /\ SubSeq(rp, 1, 1) # "/"
    /\ ".." \notin SetOf(SplitOnSlash(rp, ""))
    /\ UnderAllowedDirectory(rp)
    /\ EndsWith(rp, ".ts")

\* The validator accepts the path of a row only if the path, with its
\* backslashes turned and its blanks stripped, is admissible.
AcceptedAreAdmissible(rows) ==
    \A k \in 1..Len(rows) :
        _validate_relative_path(rows[k].relative_path) = <<>> => Admissible(NormalPath(rows[k].relative_path))

\* The files a step wrote: those that are new or hold another text.
WrittenFiles(before, after) == {path \in DOMAIN after : path \notin DOMAIN before \/ after[path] # before[path]}

\* A file is written for a row of the job whose path is admissible, at the
\* place this path resolves to.
WrittenFor(path, rows, links) ==
    \E k \in 1..Len(rows) :
        /\ Admissible(NormalPath(rows[k].relative_path))
        /\ path = Resolve(Joined(NormalPath(rows[k].relative_path)), links)

InAllowedDirectory(path) ==
    IsUnder(path, RepoRoot \o "/tests/generated") \/ IsUnder(path, RepoRoot \o "/tests/pages/generated")

\* C23, as claimed: the validator accepts admissible paths only, and every
\* file that an operation on the job writes is in tests/generated or in
\* tests/pages/generated under the repository root.
C23_WritesInAllowedDirectories ==
    [][AcceptedAreAdmissible(job.artifacts)
         /\ \A path \in WrittenFiles(tree.files, tree'.files) : InAllowedDirectory(path)]_vars

\* C23, amended: the validator accepts admissible paths only, and every file
\* that an operation on the job writes is under the repository root, at the
\* place where an admissible path of a row of the job resolves to; where
\* tests/generated is a link to another directory of the repository, that
\* place is in this other directory.
C23_WritesInRepository ==
    [][AcceptedAreAdmissible(job.artifacts)
         /\ \A path \in WrittenFiles(tree.files, tree'.files) :
                IsUnder(path, RepoRoot) /\ WrittenFor(path, job.artifacts, tree.links)]_vars

\* A materialized job whose spec was written through a linked tests/generated,
\* into the directory the link points to.
C23_Witness ==
    /\ job.job_status = "MATERIALIZED"
    /\ tree.links # {}
    /\ \E path \in DOMAIN tree.files : IsUnder(path, RepoRoot) /\ ~InAllowedDirectory(path)

\* C30: a job that is MATERIALIZED keeps its status and its artifact rows
\* whatever is asked of it, and a job becomes MATERIALIZED only when it was
\* APPROVED and a materialize found no conflict and no error.
BecomesMaterialized == job.job_status # "MATERIALIZED" /\ job'.job_status = "MATERIALIZED"
C30_MaterializedIsFinal ==
    [][/\ job.job_status = "MATERIALIZED" => job' = job
       /\ BecomesMaterialized =>
              /\ job.job_status = "APPROVED"
              /\ \E allow_overwrite \in BOOLEAN : Ok(materialize_job(job.artifacts, tree, allow_overwrite))]_vars

=============================================================================
